---- MODULE Spec2Model ----
(***************************************************************************)
(* State-machine model of the speed-test controller of argusSyS            *)
(* (src/speedtest-api.js, createSpeedtestController): scheduling, the      *)
(* single-flight run, rate-limit backoff, fallback runner, 24h history and *)
(* the persisted state file; and of the JSON salvage parser the runners'    *)
(* output goes through (safeJsonParse).                                    *)
(*                                                                         *)
(* JavaScript values are modelled as follows.  null is the record Null, a  *)
(* finite number n in a metric field is Num(n), anything Number() turns    *)
(* into NaN is NaN.  Times are epoch milliseconds (integers), 0 meaning    *)
(* "unset" exactly as in the code.  Error texts are records whose msg      *)
(* field is the fixed part of the message.                                 *)
(***************************************************************************)
EXTENDS Integers, Sequences, FiniteSets, TLC

(***************************************************************************)
(* Bounds of the model.                                                    *)
(***************************************************************************)
\* the clock takes the first MaxTime instants of TimeOffsets
MaxTime == 3
\* runs that can come to their end in one behaviour; none starts after that
MaxFinished == 1
\* in-flight executions of doRun the model can hold (the code never has 2)
MaxRuns == 2
\* runner detections started by tick and not yet resolved
MaxDetect == 1
\* stands for the history cap (5000 in the source), scaled to the model
HistoryCap == 2
\* range of the counts fed to computeRateLimitBackoffMs on its own
MaxCount == 60
\* largest throughput (Mbps) fed to niceGaugeMaxBucket on its own
MaxMbps == 6001
\* stands for the cap on the blocks extractBestJsonBlock collects (40 in the
\* source), scaled to the model
BlockCap == 2
\* characters of noise put before the JSON object in a text
MaxNoise == 2

(***************************************************************************)
(* JavaScript values                                                       *)
(***************************************************************************)
Null == [t |-> "null"]
NaN == [t |-> "nan"]
Infinity == [t |-> "inf"]
Num(v) == [t |-> "num", v |-> v]
\* the number v + 0.5, v an integer
Half(v) == [t |-> "half", v |-> v]
IsNum(x) == x.t = "num"

\* F(v), with v evaluated once before F is applied
Eager(v, F(_)) == CHOOSE y \in { F(x) : x \in {v} } : TRUE

Max(a, b) == IF a >= b THEN a ELSE b
Min(a, b) == IF a <= b THEN a ELSE b

\* runnerName when no runner has been detected (JS null)
NoName == "<null>"

(***************************************************************************)
(* Utils and rate-limit helpers                                            *)
(***************************************************************************)
\* mutant: the value is rounded up instead of down
clampInt_ceil(n, min, max) ==
  IF n.t = "num" THEN Max(min, Min(max, n.v))
  ELSE IF n.t = "half" THEN Max(min, Min(max, n.v + 1))
  ELSE min

\* clampInt(n, min, max): n is a JS value; an integer is its own floor, and
\* the floor of v + 0.5 is v
clampInt(n, min, max) ==
  IF n.t \in {"num", "half"} THEN Max(min, Min(max, n.v)) ELSE min

steps == << 30 * 60 * 1000,
            60 * 60 * 1000,
            2 * 60 * 60 * 1000,
            4 * 60 * 60 * 1000,
            6 * 60 * 60 * 1000 >>

\* mutant: the index is not capped at the last step but wraps around
computeRateLimitBackoffMs_wrap(count) ==
  LET c == IF count.t = "num" THEN Max(1, IF count.v = 0 THEN 1 ELSE count.v)
           ELSE 1
  IN steps[((c - 1) % Len(steps)) + 1]

\* computeRateLimitBackoffMs(count): count is a JS value.
\* Number(count) || 1 turns NaN and 0 into 1; Math.floor(Infinity) is Infinity,
\* which Math.min caps at the last index.
computeRateLimitBackoffMs(count) ==
  IF count.t = "inf" THEN steps[Len(steps)]
  ELSE LET n == IF count.t = "num" /\ count.v # 0 THEN count.v ELSE 1
           c == Max(1, n)
       IN steps[Min(Len(steps) - 1, c - 1) + 1]

\* fmtMin(ms): the number N of the string "Nm" (minutes, rounded up)
fmtMin(ms) ==
  LET x == Max(0, ms) IN (x + 59999) \div 60000

HISTORY_24H_MS == 24 * 60 * 60 * 1000

gaugeSteps == << 25, 50, 75, 100, 150, 200, 250, 300, 400, 500, 750, 1000,
                 1500, 2000, 3000, 5000 >>

\* mutant: a value equal to a step is put into the next bucket
niceGaugeMaxBucket_strict(mbps, fallback) ==
  LET x == IF IsNum(mbps) /\ mbps.v > 0 THEN mbps.v ELSE fallback
      fit == { i \in 1..Len(gaugeSteps) : x < gaugeSteps[i] }
  IN IF fit # {}
       THEN gaugeSteps[CHOOSE i \in fit : \A j \in fit : i <= j]
       ELSE ((x + 999) \div 1000) * 1000

\* niceGaugeMaxBucket(mbps, fallback): mbps is a metric value (Number(null) is 0)
niceGaugeMaxBucket(mbps, fallback) ==
  LET x == IF IsNum(mbps) /\ mbps.v > 0 THEN mbps.v ELSE fallback
      fit == { i \in 1..Len(gaugeSteps) : x <= gaugeSteps[i] }
  IN IF fit # {}
       THEN gaugeSteps[CHOOSE i \in fit : \A j \in fit : i <= j]
       ELSE ((x + 999) \div 1000) * 1000

(***************************************************************************)
(* The host: what is installed.  speedtest is "none", "ookla" or "python"  *)
(* (a speedtest binary whose --version names speedtest-cli).               *)
(***************************************************************************)
Hosts ==
  { [forced |-> FALSE, bundled |-> FALSE, speedtest |-> "none", stcli |-> FALSE, libre |-> FALSE],
    [forced |-> FALSE, bundled |-> TRUE,  speedtest |-> "none", stcli |-> FALSE, libre |-> TRUE],
    [forced |-> FALSE, bundled |-> FALSE, speedtest |-> "ookla", stcli |-> TRUE, libre |-> FALSE],
    [forced |-> FALSE, bundled |-> FALSE, speedtest |-> "none", stcli |-> TRUE,  libre |-> TRUE] }

Runner(kind, bin) == [kind |-> kind, bin |-> bin]

\* mutant: librespeed-cli is looked up before speedtest-cli
detectRunner_libreFirst(h) ==
  IF h.forced THEN Runner("ookla", "forced")
  ELSE IF h.bundled THEN Runner("ookla", "bundled")
  ELSE IF h.speedtest = "ookla" THEN Runner("ookla", "speedtest")
  ELSE IF h.libre THEN Runner("librespeed-cli", "librespeed-cli")
  ELSE IF h.stcli THEN Runner("speedtest-cli", "speedtest-cli")
  ELSE Null

\* detectRunner(): first available option in the fixed order, else null
detectRunner(h) ==
  IF h.forced THEN Runner("ookla", "forced")
  ELSE IF h.bundled THEN Runner("ookla", "bundled")
  ELSE IF h.speedtest = "ookla" THEN Runner("ookla", "speedtest")
  ELSE IF h.stcli THEN Runner("speedtest-cli", "speedtest-cli")
  ELSE IF h.libre THEN Runner("librespeed-cli", "librespeed-cli")
  ELSE Null

\* detectRunner returns before awaiting any process (override or bundled binary)
detectIsImmediate(h) == h.forced \/ h.bundled

\* findFallbackRunner(): speedtest-cli under either name, else null
findFallbackRunner(h) ==
  IF h.stcli THEN Runner("speedtest-cli", "speedtest-cli")
  ELSE IF h.speedtest = "python" THEN Runner("speedtest-cli", "speedtest")
  ELSE Null

(***************************************************************************)
(* State                                                                   *)
(***************************************************************************)
VARIABLES
  now,             \* nowMs(): the wall clock
  host,            \* what is installed on the host
  config,          \* createSpeedtestController options: defaultIntervalMin, runOnStart
  intervalMin, rateLimitUntil, rateLimitCount, maxDown, maxUp, nextRunTs,
  history, runnerInfo, runnerName, progress, running, last, lastError,
  file,            \* the state file: NoFile or the JSON object last written
  runs,            \* the executions of doRun that are suspended at an await
  detecting,       \* ensureRunner calls made by tick whose detection is pending
  finished,        \* how many executions of doRun have come to their end
  call             \* the last call of a pure function made on its own: fn, arg, out

envVars == << now, host, config, call >>
ctlVars == << intervalMin, rateLimitUntil, rateLimitCount, maxDown, maxUp, nextRunTs,
              history, runnerInfo, runnerName, progress, running, last, lastError,
              file, runs, detecting >>
vars == << now, host, config, intervalMin, rateLimitUntil, rateLimitCount, maxDown,
           maxUp, nextRunTs, history, runnerInfo, runnerName, progress, running, last,
           lastError, file, runs, detecting, finished, call >>

\* the controller's closure variables (and its file and pending awaits) as one record
Ctl ==
  [ intervalMin |-> intervalMin, rateLimitUntil |-> rateLimitUntil,
    rateLimitCount |-> rateLimitCount, maxDown |-> maxDown, maxUp |-> maxUp,
    nextRunTs |-> nextRunTs, history |-> history, runnerInfo |-> runnerInfo,
    runnerName |-> runnerName, progress |-> progress, running |-> running,
    last |-> last, lastError |-> lastError, file |-> file, runs |-> runs,
    detecting |-> detecting ]

NoFile == [t |-> "nofile"]

\* no pure function has been called on its own
NoCall == [fn |-> "none"]

Err(text) == [msg |-> text]

\* a field of a record that may lack it
Get(rec, key, default) == IF key \in DOMAIN rec THEN rec[key] ELSE default

(***************************************************************************)
(* Persistence                                                             *)
(***************************************************************************)
\* writeState(min, extra): the whole file is replaced by
\* { interval_min, saved_at, ...extra }.  The write is taken to succeed;
\* saved_at, which nothing reads, is left out of the modelled file.
writeState(s, min, extra) ==
  [s EXCEPT !.file = extra @@ [interval_min |-> min]]

\* JSON.stringify then JSON.parse then Number(): null and NaN both come back as 0
\* through Number(null); a finite number comes back as itself
reloadMetric(m) == IF IsNum(m) THEN m ELSE Num(0)

\* readState(): null when there is no file, else the fields with their defaults
readState(f) ==
  IF f = NoFile THEN Null
  ELSE [ t |-> "state",
         interval_min |-> IF "interval_min" \in DOMAIN f
                            THEN Num(f.interval_min) ELSE Null,
         rate_limit_until |-> Get(f, "rate_limit_until", 0),
         rate_limit_count |-> Get(f, "rate_limit_count", 0),
         max_down_mbps |-> Get(f, "max_down_mbps", 0),
         max_up_mbps |-> Get(f, "max_up_mbps", 0),
         history |->
           LET h == Get(f, "history", << >>)
               conv == [ i \in 1..Len(h) |->
                         [ ts |-> h[i].ts, runner |-> h[i].runner,
                           ping_ms |-> reloadMetric(h[i].ping_ms),
                           jitter_ms |-> reloadMetric(h[i].jitter_ms),
                           down_mbps |-> reloadMetric(h[i].down_mbps),
                           up_mbps |-> reloadMetric(h[i].up_mbps),
                           note |-> h[i].note ] ]
           IN SelectSeq(conv, LAMBDA it : it.ts > 0) ]

(***************************************************************************)
(* History                                                                 *)
(***************************************************************************)
\* the last n elements of a sequence
LastN(h, n) == IF Len(h) > n THEN SubSeq(h, Len(h) - n + 1, Len(h)) ELSE h

\* pruneHistory(now): keep the entries of the last 24h, then the newest HistoryCap
pruneHistory(h, t) ==
  Eager(SelectSeq(h, LAMBDA it : it.ts >= t - HISTORY_24H_MS), LAMBDA kept :
    LastN(kept, HistoryCap))

\* mutant: the new entry is put in front of the old ones
pushHistory_front(s, entry, t) ==
  [s EXCEPT !.history =
     << [ ts |-> t, runner |-> entry.runner,
          ping_ms |-> entry.ping_ms, jitter_ms |-> entry.jitter_ms,
          down_mbps |-> entry.down_mbps, up_mbps |-> entry.up_mbps,
          note |-> entry.note ] >> \o pruneHistory(s.history, t)]

\* pushHistory(entry): prune, then append the entry stamped with the current time
pushHistory(s, entry, t) ==
  [s EXCEPT !.history =
     Append(pruneHistory(s.history, t),
            [ ts |-> t,
              runner |-> IF entry.runner # "" THEN entry.runner
                         ELSE IF s.runnerName # NoName THEN s.runnerName ELSE "",
              ping_ms |-> entry.ping_ms, jitter_ms |-> entry.jitter_ms,
              down_mbps |-> entry.down_mbps, up_mbps |-> entry.up_mbps,
              note |-> entry.note ])]

(***************************************************************************)
(* doRun: the part that runs synchronously in the caller                   *)
(***************************************************************************)
\* a progress object; its ts, which the controller never reads, is left out
NewProgress(stage) ==
  [ stage |-> stage, ping_ms |-> Null, jitter_ms |-> Null,
    down_mbps |-> Null, up_mbps |-> Null ]

\* one execution of doRun suspended at an await.  pc: "start" (not yet past
\* await ensureRunner()), "ensure" (its runner detection is running), "primary"
\* (the runner's process is running), "lookup" (findFallbackRunner is running),
\* "fallback" (the fallback's process is running).  r is the primary's exit once
\* known; classifiedAt is the time the primary's failure was classified as
\* rate-limiting (0 when it was not).
NewRun(s) ==
  [ pc |-> "start", kind |-> "none", r |-> Null, why |-> "none", classifiedAt |-> 0 ]

\* mutant: doRun forgets to raise the running flag
doRunStart_noFlag(s, t) ==
  IF s.running THEN s
  ELSE [s EXCEPT !.lastError = Null,
                 !.progress = NewProgress("starting"),
                 !.runs = Append(@, NewRun(s))]

\* doRun() up to its first await: the single-flight guard, then running = true,
\* lastError = null and a fresh progress
doRunStart(s, t) ==
  IF s.running THEN s
  ELSE [s EXCEPT !.running = TRUE,
                 !.lastError = Null,
                 !.progress = NewProgress("starting"),
                 !.runs = Append(@, NewRun(s))]

(***************************************************************************)
(* Scheduling and the public operations                                    *)
(***************************************************************************)
\* mutant: a next run already scheduled is kept
scheduleNext_keep(s, fromTs) ==
  IF s.nextRunTs # 0 THEN s
  ELSE [s EXCEPT !.nextRunTs = IF s.intervalMin # 0
                                 THEN fromTs + s.intervalMin * 60 * 1000 ELSE 0]

\* scheduleNext(fromTs)
scheduleNext(s, fromTs) ==
  [s EXCEPT !.nextRunTs = IF s.intervalMin # 0
                            THEN fromTs + s.intervalMin * 60 * 1000 ELSE 0]

\* if (!nextRunTs || nextRunTs < rateLimitUntil) nextRunTs = rateLimitUntil
raiseNextRun(s) ==
  IF s.nextRunTs = 0 \/ s.nextRunTs < s.rateLimitUntil
    THEN [s EXCEPT !.nextRunTs = s.rateLimitUntil] ELSE s

\* rateLimitUntil && now < rateLimitUntil
inWindow(s, t) == s.rateLimitUntil # 0 /\ t < s.rateLimitUntil

\* mutant: snapshot() does not prune
snapshotPrune_none(s, t) == s

\* snapshot(), its effect: pruneHistory()
snapshotPrune(s, t) == [s EXCEPT !.history = pruneHistory(s.history, t)]

\* mutant: the snapshot shows the progress record whether or not a run is on
snapshotOf_raw(s) ==
  [ runner |-> s.runnerName, running |-> s.running, interval_min |-> s.intervalMin,
    next_run_ts |-> s.nextRunTs, last |-> s.last, last_error |-> s.lastError,
    progress |-> s.progress,
    max_down_mbps |-> s.maxDown, max_up_mbps |-> s.maxUp,
    history_24h |-> s.history ]

\* snapshot(), its value (read after the prune)
snapshotOf(s) ==
  [ runner |-> s.runnerName, running |-> s.running, interval_min |-> s.intervalMin,
    next_run_ts |-> s.nextRunTs, last |-> s.last, last_error |-> s.lastError,
    progress |-> IF s.running THEN s.progress ELSE Null,
    max_down_mbps |-> s.maxDown, max_up_mbps |-> s.maxUp,
    history_24h |-> s.history ]

\* mutant: tick starts a run whether or not it is due
tick_notDue(s, t) ==
  Eager(IF s.runnerInfo = Null THEN [s EXCEPT !.detecting = @ + 1] ELSE s, LAMBDA s1 :
    IF s1.intervalMin = 0 THEN s1
    ELSE IF inWindow(s1, t) THEN raiseNextRun(s1)
    ELSE Eager(IF s1.nextRunTs = 0 THEN scheduleNext(s1, t) ELSE s1, LAMBDA s2 :
           IF ~s2.running
             THEN doRunStart(scheduleNext(s2, t), t)
             ELSE s2))

\* mutant: tick does not test the interval
tick_noGuard(s, t) ==
  Eager(IF s.runnerInfo = Null THEN [s EXCEPT !.detecting = @ + 1] ELSE s, LAMBDA s1 :
    IF inWindow(s1, t) THEN raiseNextRun(s1)
    ELSE Eager(IF s1.nextRunTs = 0 THEN scheduleNext(s1, t) ELSE s1, LAMBDA s2 :
           IF t >= s2.nextRunTs /\ ~s2.running
             THEN doRunStart(scheduleNext(s2, t), t)
             ELSE s2))

\* tick(): kick off runner detection if none is known, do nothing when the
\* interval is 0, hold back inside the rate-limit window, else start a run
\* when it is due
tick(s, t) ==
  Eager(IF s.runnerInfo = Null THEN [s EXCEPT !.detecting = @ + 1] ELSE s, LAMBDA s1 :
    IF s1.intervalMin = 0 THEN s1
    ELSE IF inWindow(s1, t) THEN raiseNextRun(s1)
    ELSE Eager(IF s1.nextRunTs = 0 THEN scheduleNext(s1, t) ELSE s1, LAMBDA s2 :
           IF t >= s2.nextRunTs /\ ~s2.running
             THEN doRunStart(scheduleNext(s2, t), t)
             ELSE s2))

\* mutant: the retry text rounds the remaining wait down
runNowError_floor(s, t) ==
  [ msg |-> "rate_limited: retry in", min |-> (s.rateLimitUntil - t) \div 60000,
    fallback |-> FALSE ]

\* the text runNow reports inside the window: retry in fmtMin(left)
runNowError(s, t) ==
  [ msg |-> "rate_limited: retry in", min |-> fmtMin(s.rateLimitUntil - t),
    fallback |-> FALSE ]

\* mutant: runNow starts a run only when the schedule is due
runNow_due(s, t) ==
  IF inWindow(s, t)
    THEN snapshotPrune(raiseNextRun([s EXCEPT !.lastError = runNowError(s, t)]), t)
    ELSE snapshotPrune(IF ~s.running /\ s.intervalMin > 0 /\ t >= s.nextRunTs
                         THEN doRunStart(s, t) ELSE s, t)

\* runNow(), up to the snapshot it returns
runNow(s, t) ==
  IF inWindow(s, t)
    THEN snapshotPrune(raiseNextRun([s EXCEPT !.lastError = runNowError(s, t)]), t)
    ELSE snapshotPrune(IF ~s.running THEN doRunStart(s, t) ELSE s, t)

\* setIntervalMin(min), up to the snapshot it returns
setIntervalMin(s, min, t) ==
  Eager([s EXCEPT !.intervalMin = clampInt(min, 0, 60 * 24)], LAMBDA s1 :
    Eager(writeState(s1, s1.intervalMin,
                     [ rate_limit_until |-> s1.rateLimitUntil,
                       rate_limit_count |-> s1.rateLimitCount ]), LAMBDA s2 :
      snapshotPrune(scheduleNext(s2, t), t)))

\* the closure variables as createSpeedtestController initializes them
\* from readState()
loadedState(loaded, f, cfg) ==
  [ intervalMin |->
      clampInt(IF loaded # Null /\ loaded.interval_min # Null
                 THEN loaded.interval_min
                 ELSE Num(cfg.defaultIntervalMin), 0, 60 * 24),
    rateLimitUntil |-> IF loaded # Null THEN loaded.rate_limit_until ELSE 0,
    rateLimitCount |-> IF loaded # Null THEN loaded.rate_limit_count ELSE 0,
    maxDown |-> IF loaded # Null THEN loaded.max_down_mbps ELSE 0,
    maxUp |-> IF loaded # Null THEN loaded.max_up_mbps ELSE 0,
    nextRunTs |-> 0,
    history |-> IF loaded # Null THEN loaded.history ELSE << >>,
    runnerInfo |-> Null, runnerName |-> NoName, progress |-> Null,
    running |-> FALSE, last |-> Null, lastError |-> Null,
    file |-> f, runs |-> << >>, detecting |-> 0 ]

\* mutant: the start-up run ignores the rate-limit window
startupRun_always(s1, cfg, t) ==
  IF cfg.runOnStart /\ s1.intervalMin > 0
    THEN scheduleNext(doRunStart(s1, t), t)
    ELSE s1

\* the end of createSpeedtestController(): run on start unless inside the
\* rate-limit window
startupRun(s1, cfg, t) ==
  IF cfg.runOnStart /\ s1.intervalMin > 0
    THEN IF s1.rateLimitUntil = 0 \/ t >= s1.rateLimitUntil
           THEN scheduleNext(doRunStart(s1, t), t)
           ELSE [s1 EXCEPT !.nextRunTs = Max(s1.nextRunTs, s1.rateLimitUntil)]
    ELSE s1

\* createSpeedtestController(): load the file, schedule, run on start
create(f, cfg, t) ==
  Eager(readState(f), LAMBDA loaded :
    Eager(scheduleNext(loadedState(loaded, f, cfg), t), LAMBDA s1 :
      startupRun(s1, cfg, t)))

(***************************************************************************)
(* doRun: what happens when an await resolves                              *)
(***************************************************************************)
RemoveAt(q, i) == SubSeq(q, 1, i - 1) \o SubSeq(q, i + 1, Len(q))

\* mutant: the execution ends without lowering the running flag
runFinally_stuck(s, i) == [s EXCEPT !.runs = RemoveAt(@, i)]

\* finally { running = false }, and the execution is over
runFinally(s, i) == [s EXCEPT !.running = FALSE, !.runs = RemoveAt(@, i)]

\* mutant: the end of a run leaves the stage as it is
stageTo_keep(s, stage) == s

\* if (progress) progress = { ...progress, stage, ts: now }
stageTo(s, stage) ==
  IF s.progress # Null
    THEN [s EXCEPT !.progress = [s.progress EXCEPT !.stage = stage]]
    ELSE s

\* mutant: a hit or a reset is not written to the state file
writeRateLimit_skip(s) == s

\* the state file as doRun writes it after a rate-limit hit or a reset
writeRateLimit(s) ==
  writeState(s, s.intervalMin,
             [ rate_limit_until |-> s.rateLimitUntil,
               rate_limit_count |-> s.rateLimitCount ])

\* mutant: a hit leaves the next run where it was
rateLimitHit_noRaise(s, t) ==
  Eager(Max(1, s.rateLimitCount + 1), LAMBDA c :
    Eager(computeRateLimitBackoffMs(Num(c)), LAMBDA backoffMs :
      writeRateLimit([s EXCEPT !.rateLimitCount = c,
                               !.rateLimitUntil = t + backoffMs])))

\* a rate-limit hit as doRun records it (both after a tagged fallback result
\* and on a RateLimitError, whose retryAfterMs is never set): count, window,
\* next run, state file
rateLimitHit(s, t) ==
  Eager(Max(1, s.rateLimitCount + 1), LAMBDA c :
    Eager(computeRateLimitBackoffMs(Num(c)), LAMBDA backoffMs :
      writeRateLimit(raiseNextRun([s EXCEPT !.rateLimitCount = c,
                                            !.rateLimitUntil = t + backoffMs]))))

\* lastError after a hit: retry in fmtMin(backoffMs), backoffMs being the
\* window just set
hitError(s, t, viaFallback) ==
  [s EXCEPT !.lastError = [ msg |-> "rate_limited: retry in",
                            min |-> fmtMin(s.rateLimitUntil - t),
                            fallback |-> viaFallback ]]

\* mutant: the window and the counter are kept after a good result
rateLimitReset_keep(s, t) == s

\* if (!res.ookla_rate_limited && (rateLimitUntil || rateLimitCount)) reset
rateLimitReset(s, t) ==
  IF s.rateLimitUntil # 0 \/ s.rateLimitCount # 0
    THEN writeRateLimit([s EXCEPT !.rateLimitUntil = 0, !.rateLimitCount = 0])
    ELSE s

\* final.x == null ? progress.x ?? null : final.x
fillFrom(p, x, key) == IF x = Null /\ p # Null THEN p[key] ELSE x

\* mutant: the progress values win over the result's
mergeProgress_progressFirst(s, res) ==
  [ res EXCEPT !.ping_ms = IF s.progress # Null /\ s.progress.ping_ms # Null
                             THEN s.progress.ping_ms ELSE @,
               !.jitter_ms = IF s.progress # Null /\ s.progress.jitter_ms # Null
                               THEN s.progress.jitter_ms ELSE @,
               !.down_mbps = IF s.progress # Null /\ s.progress.down_mbps # Null
                               THEN s.progress.down_mbps ELSE @,
               !.up_mbps = IF s.progress # Null /\ s.progress.up_mbps # Null
                             THEN s.progress.up_mbps ELSE @ ]

\* const final = { ...res } with the null metrics filled from progress
mergeProgress(s, res) ==
  [ res EXCEPT !.ping_ms = fillFrom(s.progress, @, "ping_ms"),
               !.jitter_ms = fillFrom(s.progress, @, "jitter_ms"),
               !.down_mbps = fillFrom(s.progress, @, "down_mbps"),
               !.up_mbps = fillFrom(s.progress, @, "up_mbps") ]

\* new gauge maxima, last and runnerName from the final result
recordLast(s, final, t) ==
  [s EXCEPT !.maxDown = niceGaugeMaxBucket(final.down_mbps, 250),
            !.maxUp = niceGaugeMaxBucket(final.up_mbps, 50),
            !.last = final @@ [ts |-> t],
            !.runnerName = final.runner]

\* the state file as doRun writes it after a result
writeResult(s) ==
  writeState(s, s.intervalMin,
             [ rate_limit_until |-> s.rateLimitUntil,
               rate_limit_count |-> s.rateLimitCount,
               max_down_mbps |-> s.maxDown, max_up_mbps |-> s.maxUp,
               history |-> s.history ])

\* if (progress) progress = { ...progress, stage: "done", final ?? progress }
doneProgress(s, final) ==
  IF s.progress # Null
    THEN [s EXCEPT !.progress =
            [ stage |-> "done",
              ping_ms |-> IF final.ping_ms # Null THEN final.ping_ms
                          ELSE s.progress.ping_ms,
              jitter_ms |-> IF final.jitter_ms # Null THEN final.jitter_ms
                            ELSE s.progress.jitter_ms,
              down_mbps |-> IF final.down_mbps # Null THEN final.down_mbps
                            ELSE s.progress.down_mbps,
              up_mbps |-> IF final.up_mbps # Null THEN final.up_mbps
                          ELSE s.progress.up_mbps ]]
    ELSE s

\* the try block of doRun after runSpeedtest returned res, then finally
finishResult(s, i, res, t) ==
  Eager(IF Get(res, "ookla_rate_limited", FALSE)
          THEN stageTo(hitError(rateLimitHit(s, t), t, TRUE), "rate_limited")
          ELSE rateLimitReset(s, t), LAMBDA s1 :
    Eager(mergeProgress(s1, res), LAMBDA final :
      Eager(pushHistory(recordLast(s1, final, t),
                        [ runner |-> final.runner, ping_ms |-> final.ping_ms,
                          jitter_ms |-> final.jitter_ms,
                          down_mbps |-> final.down_mbps,
                          up_mbps |-> final.up_mbps,
                          note |-> Get(final, "note", "") ], t), LAMBDA s3 :
        runFinally(doneProgress(writeResult(s3), final), i))))

\* an exception: name is "Error" or "RateLimitError"
Thrown(name, text) == [name |-> name, msg |-> text]

\* mutant: an error that is not rate-limiting moves the schedule
finishError_resched(s, i, e, t) ==
  IF e.name = "RateLimitError"
    THEN runFinally(stageTo(hitError(rateLimitHit(s, t), t, FALSE), "rate_limited"), i)
    ELSE runFinally(stageTo([scheduleNext(s, t) EXCEPT !.lastError = Err(e.msg)],
                            "error"), i)

\* the catch block of doRun, then finally
finishError(s, i, e, t) ==
  IF e.name = "RateLimitError"
    THEN runFinally(stageTo(hitError(rateLimitHit(s, t), t, FALSE), "rate_limited"), i)
    ELSE runFinally(stageTo([s EXCEPT !.lastError = Err(e.msg)], "error"), i)

(***************************************************************************)
(* runSpeedtest: the processes and what their exits lead to                *)
(***************************************************************************)
\* what runCmd / runOoklaJsonWithProgress resolve with; out is the normalized
\* result parsed from the output, or Null when the output cannot be parsed
Exit(killed, spawnError, code, rlText, out) ==
  [ killed |-> killed, spawn_error |-> spawnError, code |-> code,
    rl_text |-> rlText, out |-> out ]

Metrics(ping, jitter, down, up) ==
  [ ping_ms |-> ping, jitter_ms |-> jitter, down_mbps |-> down, up_mbps |-> up ]

\* results the tools report in the model
Measured(kind) ==
  IF kind = "ookla"
    THEN { Metrics(Num(12), Num(2), Num(137), Num(20)) }
    ELSE { Metrics(Num(15), Null, Num(812), Num(55)),
           Metrics(Null, Null, Null, Null) }

\* the exits a runner's process can take
Exits(kind) ==
  { Exit(TRUE, FALSE, 0, FALSE, Null),          \* killed by the timeout
    Exit(FALSE, TRUE, 127, FALSE, Null),        \* could not be launched
    Exit(FALSE, FALSE, 1, FALSE, Null),         \* failed
    Exit(FALSE, FALSE, 0, FALSE, Null) }        \* exit 0, output not parseable
  \cup { Exit(FALSE, FALSE, 0, FALSE, m) : m \in Measured(kind) }
  \cup ( IF kind = "ookla"
           THEN { Exit(FALSE, FALSE, 173, TRUE, Null),   \* "Limit reached"
                  Exit(FALSE, FALSE, 1, TRUE, Null) }    \* "Too many requests"
           ELSE { } )

\* partial updates runOoklaJsonWithProgress hands to onProgress
ProgressEvents ==
  { [stage |-> "ping", ping_ms |-> Num(11), jitter_ms |-> Num(3)],
    [stage |-> "ping", ping_ms |-> Num(11), jitter_ms |-> Null],
    [stage |-> "download", down_mbps |-> Num(90)] }

\* r.code === 173 || isRateLimitedText(msg)
rateLimited(r) == r.code = 173 \/ r.rl_text

Result(kind, m) ==
  [ runner |-> kind, ping_ms |-> m.ping_ms, jitter_ms |-> m.jitter_ms,
    down_mbps |-> m.down_mbps, up_mbps |-> m.up_mbps ]

\* runSpeedtest for speedtest-cli and librespeed-cli once the process has
\* exited: a result, or the error thrown
simpleOutcome(kind, r) ==
  IF r.killed THEN Thrown("Error", kind \o " timeout")
  ELSE IF r.code # 0 THEN Thrown("Error", kind \o " exit")
  ELSE IF r.out = Null THEN Thrown("Error", kind \o " invalid_json")
  ELSE Result(kind, r.out)

IsThrown(x) == "name" \in DOMAIN x

SetRun(s, i, run) == [s EXCEPT !.runs[i] = run]

\* mutant: a run without a runner ends without reporting the error
ensureDone_silent(s, i, h, t) ==
  Eager(detectRunner(h), LAMBDA info :
    IF info = Null THEN runFinally(s, i)
    ELSE SetRun([s EXCEPT !.runnerInfo = info, !.runnerName = info.kind], i,
                [s.runs[i] EXCEPT !.pc = "primary", !.kind = info.kind]))

\* await ensureRunner() resolved inside doRun: cache the detection, then
\* runSpeedtest throws without a runner or launches the runner's process
ensureDone(s, i, h, t) ==
  Eager(detectRunner(h), LAMBDA info :
    Eager([s EXCEPT !.runnerInfo = info,
                    !.runnerName = IF info = Null THEN NoName ELSE info.kind],
          LAMBDA s1 :
      IF info = Null
        THEN finishError(s1, i, Thrown("Error", "No speedtest runner found"), t)
        ELSE SetRun(s1, i, [s1.runs[i] EXCEPT !.pc = "primary", !.kind = info.kind])))

\* mutant: an Ookla process killed by the timeout is followed by a fallback
primaryExit_retry(s, i, r, t) ==
  LET run == s.runs[i]
  IN IF run.kind # "ookla"
       THEN Eager(simpleOutcome(run.kind, r), LAMBDA o :
              IF IsThrown(o) THEN finishError(s, i, o, t)
              ELSE finishResult(s, i, o, t))
     ELSE IF r.killed \/ r.spawn_error
       THEN SetRun(s, i, [run EXCEPT !.pc = "lookup", !.r = r, !.why = "spawn"])
     ELSE IF r.code # 0
       THEN SetRun(s, i, [run EXCEPT !.pc = "lookup", !.r = r, !.why = "exit",
                                     !.classifiedAt = IF rateLimited(r) THEN t ELSE 0])
     ELSE IF r.out = Null
       THEN SetRun(s, i, [run EXCEPT !.pc = "lookup", !.r = r, !.why = "parse"])
     ELSE finishResult(s, i, Result("ookla", r.out), t)

\* the primary runner's process exited
primaryExit(s, i, r, t) ==
  LET run == s.runs[i]
  IN IF run.kind # "ookla"
       THEN Eager(simpleOutcome(run.kind, r), LAMBDA o :
              IF IsThrown(o) THEN finishError(s, i, o, t)
              ELSE finishResult(s, i, o, t))
     ELSE IF r.killed
       THEN finishError(s, i, Thrown("Error", "speedtest timeout"), t)
     ELSE IF r.spawn_error
       THEN SetRun(s, i, [run EXCEPT !.pc = "lookup", !.r = r, !.why = "spawn"])
     ELSE IF r.code # 0
       THEN SetRun(s, i, [run EXCEPT !.pc = "lookup", !.r = r, !.why = "exit",
                                     !.classifiedAt = IF rateLimited(r) THEN t ELSE 0])
     ELSE IF r.out = Null
       THEN SetRun(s, i, [run EXCEPT !.pc = "lookup", !.r = r, !.why = "parse"])
     ELSE finishResult(s, i, Result("ookla", r.out), t)

\* await findFallbackRunner() resolved: launch the fallback, or throw the
\* primary's error
lookupDone(s, i, h, t) ==
  LET run == s.runs[i]
      fb == findFallbackRunner(h)
  IN IF fb # Null
       THEN SetRun(s, i, [run EXCEPT !.pc = "fallback", !.kind = fb.kind])
     ELSE IF run.why = "spawn"
       THEN finishError(s, i, Thrown("Error", "speedtest spawn failed"), t)
     ELSE IF run.why = "parse"
       THEN finishError(s, i, Thrown("Error", "speedtest invalid_json"), t)
     ELSE IF rateLimited(run.r)
       THEN finishError(s, i, Thrown("RateLimitError", "rate_limited"), t)
     ELSE finishError(s, i, Thrown("Error", "speedtest exit"), t)

\* the fallback's process exited: its error propagates as it is; its result
\* is returned, tagged when the primary had exited non-zero
fallbackExit(s, i, r, t) ==
  LET run == s.runs[i]
  IN Eager(simpleOutcome(run.kind, r), LAMBDA o :
       IF IsThrown(o) THEN finishError(s, i, o, t)
       ELSE IF run.why = "exit"
         THEN finishResult(s, i,
                o @@ [ note |-> IF rateLimited(run.r) THEN "ookla_rate_limited_fallback"
                                ELSE "ookla_failed_fallback",
                       ookla_exit |-> run.r.code,
                       ookla_rate_limited |-> rateLimited(run.r) ], t)
       ELSE finishResult(s, i, o, t))

\* the onProgress callback of doRun
onProgress(s, p) ==
  LET base == IF s.progress = Null THEN NewProgress("running") ELSE s.progress
  IN [s EXCEPT !.progress =
        [ k \in DOMAIN base |-> IF k \in DOMAIN p THEN p[k] ELSE base[k] ]]

\* the continuations that run before the event loop takes another event: an
\* ensureRunner call that needs no process (runner cached, or found without a
\* lookup) resolves at once, and doRun goes on to launch the runner
settle(s, h) ==
  Eager(IF detectIsImmediate(h) /\ s.runnerInfo = Null
           /\ (s.detecting > 0 \/ \E i \in 1..Len(s.runs) : s.runs[i].pc = "start")
          THEN [s EXCEPT !.runnerInfo = detectRunner(h),
                         !.runnerName = detectRunner(h).kind,
                         !.detecting = 0]
          ELSE s, LAMBDA s1 :
    [s1 EXCEPT !.runs =
       [ i \in 1..Len(s1.runs) |->
           IF s1.runs[i].pc # "start" THEN s1.runs[i]
           ELSE IF s1.runnerInfo # Null
             THEN [s1.runs[i] EXCEPT !.pc = "primary", !.kind = s1.runnerInfo.kind]
             ELSE [s1.runs[i] EXCEPT !.pc = "ensure"] ]])

(***************************************************************************)
(* The environment: clock, options, what an earlier process left on disk   *)
(***************************************************************************)
HalfHourMs == 30 * 60 * 1000

\* the time the model starts at (any time later than one history window)
T0 == 2 * HISTORY_24H_MS

\* instants after T0 the clock can show: 1 ms later, at the end of a 30 min
\* window, past a whole history window, and further points in between
TimeOffsets ==
  << 0, 1, HalfHourMs, HISTORY_24H_MS + 1, HalfHourMs + 1, HISTORY_24H_MS,
     2 * HalfHourMs, 2 * HISTORY_24H_MS >>

TimePoints == { T0 + TimeOffsets[i] : i \in 1..Min(MaxTime, Len(TimeOffsets)) }

Configs ==
  { [defaultIntervalMin |-> 0, runOnStart |-> TRUE],
    [defaultIntervalMin |-> 30, runOnStart |-> TRUE] }

OldEntry(ts, note) ==
  [ ts |-> ts, runner |-> "speedtest-cli", ping_ms |-> Num(15), jitter_ms |-> Null,
    down_mbps |-> Num(812), up_mbps |-> Num(55), note |-> note ]

\* the history of the seeded state file: doRun prunes to HistoryCap entries and
\* then appends its own, so the file holds up to HistoryCap + 1 of them.  The
\* oldest is exactly 24h old at T0, the newest is the run that wrote the file.
SeedHistory ==
  [ i \in 1..(HistoryCap + 1) |->
      IF i = HistoryCap + 1
        THEN OldEntry(T0 + HalfHourMs - steps[5], "ookla_rate_limited_fallback")
        ELSE IF i = 1 THEN OldEntry(T0 - HISTORY_24H_MS, "")
        ELSE OldEntry(T0 - 12 * 60 * 60 * 1000 + i, "") ]

\* state files an earlier run of the program can have left: none, or one
\* written by a run whose primary was rate-limited for the fifth time and
\* whose window ends half an hour from now
SeedFiles ==
  { NoFile,
    [ interval_min |-> 0,
      rate_limit_until |-> T0 + HalfHourMs, rate_limit_count |-> 5,
      max_down_mbps |-> 1000, max_up_mbps |-> 75,
      history |-> SeedHistory ] }

\* arguments given to setIntervalMin
IntervalInputs == { Num(0), Num(30), NaN, Half(30), Num(0 - 5), Num(1500) }

(***************************************************************************)
(* Init and the actions                                                    *)
(***************************************************************************)
\* the variables take the values of the record z
Becomes(z) ==
  /\ intervalMin' = z.intervalMin
  /\ rateLimitUntil' = z.rateLimitUntil
  /\ rateLimitCount' = z.rateLimitCount
  /\ maxDown' = z.maxDown
  /\ maxUp' = z.maxUp
  /\ nextRunTs' = z.nextRunTs
  /\ history' = z.history
  /\ runnerInfo' = z.runnerInfo
  /\ runnerName' = z.runnerName
  /\ progress' = z.progress
  /\ running' = z.running
  /\ last' = z.last
  /\ lastError' = z.lastError
  /\ file' = z.file
  /\ runs' = z.runs
  /\ detecting' = z.detecting

\* how many executions of doRun the handler that returned s has begun
Begun(s) == Cardinality({ i \in 1..Len(s.runs) : s.runs[i].pc = "start" })

\* the step of a handler that returned s: the continuations that need no
\* further event run before the next event is taken
Apply(s) ==
  \E s0 \in {s} :
    \E z \in {settle(s0, host)} :
      /\ Len(z.runs) <= MaxRuns
      /\ z.detecting <= MaxDetect
      /\ Begun(s0) > 0 => finished < MaxFinished
      /\ finished' = finished + (Len(runs) + Begun(s0) - Len(z.runs))
      /\ Becomes(z)

Init ==
  /\ now = T0
  /\ host \in Hosts
  /\ config \in Configs
  /\ finished = 0
  /\ call = NoCall
  /\ \E f \in SeedFiles :
       \E s \in {settle(create(f, config, T0), host)} :
          /\ intervalMin = s.intervalMin
          /\ rateLimitUntil = s.rateLimitUntil
          /\ rateLimitCount = s.rateLimitCount
          /\ maxDown = s.maxDown
          /\ maxUp = s.maxUp
          /\ nextRunTs = s.nextRunTs
          /\ history = s.history
          /\ runnerInfo = s.runnerInfo
          /\ runnerName = s.runnerName
          /\ progress = s.progress
          /\ running = s.running
          /\ last = s.last
          /\ lastError = s.lastError
          /\ file = s.file
          /\ runs = s.runs
          /\ detecting = s.detecting

\* time passes
Advance ==
  /\ \E t \in TimePoints : t > now /\ now' = t
  /\ UNCHANGED << host, config, call >>
  /\ UNCHANGED << ctlVars, finished >>

\* the process is stopped and started again: a new controller on the same file
Restart ==
  /\ Apply(create(file, config, now))
  /\ UNCHANGED envVars

\* setInterval(() => speedtest.tick(), 1000)
Tick ==
  /\ Apply(tick(Ctl, now))
  /\ UNCHANGED envVars

\* GET /stats/speedtest/run
RunNow ==
  /\ Apply(runNow(Ctl, now))
  /\ UNCHANGED envVars

\* GET /stats/speedtest/config?interval=
SetIntervalMin ==
  \E m \in IntervalInputs :
    /\ Apply(setIntervalMin(Ctl, m, now))
    /\ UNCHANGED envVars

\* GET /stats/speedtest/last, /history
Snapshot ==
  /\ Apply(snapshotPrune(Ctl, now))
  /\ UNCHANGED envVars

\* a runner detection started by tick resolves
DetectDone ==
  /\ detecting > 0
  /\ \E info \in {detectRunner(host)} :
       Apply([Ctl EXCEPT !.runnerInfo = info,
                         !.runnerName = IF info = Null THEN NoName ELSE info.kind,
                         !.detecting = @ - 1])
  /\ UNCHANGED envVars

\* the runner detection awaited by doRun resolves
EnsureDone ==
  \E i \in 1..Len(runs) :
    /\ runs[i].pc = "ensure"
    /\ Apply(ensureDone(Ctl, i, host, now))
    /\ UNCHANGED envVars

\* the running Ookla process prints a progress line
Progress ==
  \E i \in 1..Len(runs), p \in ProgressEvents :
    /\ runs[i].pc = "primary" /\ runs[i].kind = "ookla"
    /\ Apply(onProgress(Ctl, p))
    /\ UNCHANGED envVars

\* the primary runner's process ends
PrimaryExit ==
  \E i \in 1..Len(runs) :
    /\ runs[i].pc = "primary"
    /\ \E r \in Exits(runs[i].kind) :
         /\ Apply(primaryExit(Ctl, i, r, now))
    /\ UNCHANGED envVars

\* the lookup of a fallback runner ends
LookupDone ==
  \E i \in 1..Len(runs) :
    /\ runs[i].pc = "lookup"
    /\ Apply(lookupDone(Ctl, i, host, now))
    /\ UNCHANGED envVars

\* the fallback runner's process ends
FallbackExit ==
  \E i \in 1..Len(runs) :
    /\ runs[i].pc = "fallback"
    /\ \E r \in Exits(runs[i].kind) :
         /\ Apply(fallbackExit(Ctl, i, r, now))
    /\ UNCHANGED envVars

Next ==
  \/ Advance
  \/ Restart
  \/ Tick
  \/ RunNow
  \/ SetIntervalMin
  \/ Snapshot
  \/ DetectDone
  \/ EnsureDone
  \/ Progress
  \/ PrimaryExit
  \/ LookupDone
  \/ FallbackExit

Spec == Init /\ [][Next]_vars

\* every await of doRun resolves: the detections are commands run with a
\* timeout of 5 s, the runners' processes exit or are killed when their
\* timeout fires, and either way the promise resolves on the close event
SpecLive ==
  /\ Init /\ [][Next]_vars
  /\ WF_vars(EnsureDone)
  /\ WF_vars(PrimaryExit)
  /\ WF_vars(LookupDone)
  /\ WF_vars(FallbackExit)

(***************************************************************************)
(* The scheduler over unbounded time.  The controller compares its times   *)
(* with the clock only, so for a run of the program without end the model  *)
(* keeps the clock where it is and moves the stored times back instead:    *)
(* when ElapseMs pass, every time the controller holds is ElapseMs         *)
(* earlier relative to now.  A time before the history window is kept at   *)
(* LongAgo (no comparison tells two such times apart); 0, which the        *)
(* controller reads as "not set", stays 0.                                 *)
(***************************************************************************)
\* the time that passes in one step of the clock: more than the history
\* window, the interval and the longest backoff
ElapseMs == HISTORY_24H_MS + 1

\* rate-limit hits in a row the scheduler model follows
MaxHits == 1

LongAgo == T0 - ElapseMs

earlier(ts) == IF ts = 0 THEN 0 ELSE Max(ts - ElapseMs, LongAgo)

\* the controller as it stands when ElapseMs have passed
elapsed(s) ==
  [s EXCEPT !.nextRunTs = earlier(@),
            !.rateLimitUntil = earlier(@),
            !.history = [ k \in 1..Len(@) |-> [@[k] EXCEPT !.ts = earlier(@)] ],
            !.last = IF @ = Null THEN @ ELSE [@ EXCEPT !.ts = earlier(@)],
            !.runs = [ k \in 1..Len(@) |-> [@[k] EXCEPT !.classifiedAt = earlier(@)] ]]

\* time passes; another run can come to its end
Elapse ==
  /\ Becomes(elapsed(Ctl))
  /\ finished' = 0
  /\ UNCHANGED << now, host, config, call >>

\* the primary runner's process ends; after MaxHits hits in a row the
\* service does not rate-limit the next run
PrimaryExitSched ==
  /\ PrimaryExit
  /\ rateLimitCount >= MaxHits =>
       \A k \in 1..Len(runs') : runs'[k].r = Null \/ ~rateLimited(runs'[k].r)

\* one controller with a positive interval, from its creation on
InitSched == Init /\ intervalMin > 0

\* no restart and no setIntervalMin: one controller, one interval
NextSched ==
  \/ Elapse
  \/ Tick
  \/ RunNow
  \/ Snapshot
  \/ DetectDone
  \/ EnsureDone
  \/ Progress
  \/ PrimaryExitSched
  \/ LookupDone
  \/ FallbackExit

\* time advances, the timer keeps calling tick (setInterval, 1 s), and every
\* await of a run or of a detection resolves
SpecSched ==
  /\ InitSched /\ [][NextSched]_vars
  /\ WF_vars(Elapse)
  /\ WF_vars(Tick)
  /\ WF_vars(DetectDone)
  /\ WF_vars(EnsureDone)
  /\ WF_vars(PrimaryExitSched)
  /\ WF_vars(LookupDone)
  /\ WF_vars(FallbackExit)

(***************************************************************************)
(* JSON parsing and salvage.  A text is a sequence of characters.  The     *)
(* letters d, u, p, t, r, a, i stand for the words download, upload, ping, *)
(* type, result, data and isp (as a key, or as a string's content); x is   *)
(* any other letter, 1 a digit, " " a blank.                               *)
(***************************************************************************)
Quote == "\""

Backslash == "\\"

\* JSON values as JSON.parse returns them; Absent is undefined
Absent == [k |-> "absent"]

JNum == [k |-> "num"]

JStr(c) == [k |-> "str", c |-> c]

JArr(items) == [k |-> "arr", items |-> items]

\* an object: m maps the keys (strings) to the values
JObj(m) == [k |-> "obj", m |-> m]

NoMembers == [ key \in {} |-> Absent ]

\* v.name
Prop(v, name) ==
  IF v.k = "obj" /\ << name >> \in DOMAIN v.m THEN v.m[<< name >>] ELSE Absent

\* a value that counts as true in a condition (the numbers of the model are
\* not 0)
Truthy(v) == v.k \in {"obj", "arr", "num"} \/ (v.k = "str" /\ v.c # << >>)

\* v && typeof v === "object"
IsObject(v) == v.k \in {"obj", "arr"}

\* what a parsing step returns: the value and the position after it, or failure
Parsed(v, n) == [ok |-> TRUE, v |-> v, n |-> n]

ParseFail == [ok |-> FALSE]

RECURSIVE skipWs(_, _)
\* the first position from i on that holds no blank
skipWs(s, i) == IF i <= Len(s) /\ s[i] = " " THEN skipWs(s, i + 1) ELSE i

RECURSIVE parseString(_, _, _)
\* a string from the position after its opening quote; c is the content read
\* so far.  Of the escapes \" and \\ give the character, \r and \t (the first
\* letter of result, type) a control character, any other pair is an error
parseString(s, i, c) ==
  IF i > Len(s) THEN ParseFail
  ELSE IF s[i] = Quote THEN Parsed(JStr(c), i + 1)
  ELSE IF s[i] = Backslash
    THEN IF i + 1 > Len(s) THEN ParseFail
         ELSE IF s[i + 1] \in {Quote, Backslash}
           THEN parseString(s, i + 2, Append(c, s[i + 1]))
         ELSE IF s[i + 1] \in {"r", "t"}
           THEN parseString(s, i + 2, c \o << "ctl", "x" >>)
         ELSE ParseFail
  ELSE parseString(s, i + 1, Append(c, s[i]))

RECURSIVE parseNumber(_, _)
\* the position after the digits that begin at i
parseNumber(s, i) == IF i <= Len(s) /\ s[i] = "1" THEN parseNumber(s, i + 1) ELSE i

RECURSIVE parseValue(_, _)
RECURSIVE parseMembers(_, _, _)
RECURSIVE parseItems(_, _, _)

\* the members of an object from the position of a key on; m holds the
\* members read so far (a key given twice keeps its last value)
parseMembers(s, i, m) ==
  IF i > Len(s) \/ s[i] # Quote THEN ParseFail
  ELSE Eager(parseString(s, i + 1, << >>), LAMBDA key :
    IF ~key.ok THEN ParseFail
    ELSE Eager(skipWs(s, key.n), LAMBDA j :
      IF j > Len(s) \/ s[j] # ":" THEN ParseFail
      ELSE Eager(parseValue(s, j + 1), LAMBDA r :
        IF ~r.ok THEN ParseFail
        ELSE Eager(skipWs(s, r.n), LAMBDA e :
          Eager((key.v.c :> r.v) @@ m, LAMBDA m2 :
            IF e > Len(s) THEN ParseFail
            ELSE IF s[e] = "}" THEN Parsed(JObj(m2), e + 1)
            ELSE IF s[e] = "," THEN parseMembers(s, skipWs(s, e + 1), m2)
            ELSE ParseFail)))))

\* the elements of an array from the position of an element on
parseItems(s, i, items) ==
  Eager(parseValue(s, i), LAMBDA r :
    IF ~r.ok THEN ParseFail
    ELSE Eager(skipWs(s, r.n), LAMBDA e :
      IF e > Len(s) THEN ParseFail
      ELSE IF s[e] = "]" THEN Parsed(JArr(Append(items, r.v)), e + 1)
      ELSE IF s[e] = "," THEN parseItems(s, e + 1, Append(items, r.v))
      ELSE ParseFail))

\* a JSON value that begins at i or after blanks
parseValue(s, i0) ==
  Eager(skipWs(s, i0), LAMBDA i :
    IF i > Len(s) THEN ParseFail
    ELSE IF s[i] = "{"
      THEN Eager(skipWs(s, i + 1), LAMBDA j :
             IF j <= Len(s) /\ s[j] = "}" THEN Parsed(JObj(NoMembers), j + 1)
             ELSE parseMembers(s, j, NoMembers))
    ELSE IF s[i] = "["
      THEN Eager(skipWs(s, i + 1), LAMBDA j :
             IF j <= Len(s) /\ s[j] = "]" THEN Parsed(JArr(<< >>), j + 1)
             ELSE parseItems(s, j, << >>))
    ELSE IF s[i] = Quote THEN parseString(s, i + 1, << >>)
    ELSE IF s[i] = "1" THEN Parsed(JNum, parseNumber(s, i))
    ELSE ParseFail)

\* JSON.parse(s): the value of the whole text, or failure (the exception)
JSONparse(s) ==
  Eager(parseValue(s, 1), LAMBDA r :
    IF r.ok /\ skipWs(s, r.n) = Len(s) + 1 THEN r ELSE ParseFail)

\* scoreCandidate(obj); the model has no interface and no server member
scoreCandidate(obj) ==
  IF ~IsObject(obj) THEN 0
  ELSE (IF Truthy(Prop(obj, "p")) THEN 2 ELSE 0)
     + (IF Truthy(Prop(obj, "d")) THEN 3 ELSE 0)
     + (IF Truthy(Prop(obj, "u")) THEN 3 ELSE 0)
     + (IF Prop(obj, "t") = JStr(<< "r" >>) THEN 10 ELSE 0)
     + (IF Truthy(Prop(obj, "i")) THEN 1 ELSE 0)

RECURSIVE pickBestSpeedtestResult(_)
RECURSIVE pickFromArray(_, _, _, _)

\* the loop of pickBestSpeedtestResult over the elements of an array
pickFromArray(items, i, best, bestScore) ==
  IF i > Len(items) THEN (IF bestScore > 0 THEN best ELSE Null)
  ELSE Eager(pickBestSpeedtestResult(items[i]), LAMBDA picked :
    Eager(IF picked # Null THEN picked ELSE items[i], LAMBDA cand :
      IF Prop(cand, "t") = JStr(<< "r" >>) THEN cand
      ELSE IF scoreCandidate(cand) > bestScore
        THEN pickFromArray(items, i + 1, cand, scoreCandidate(cand))
        ELSE pickFromArray(items, i + 1, best, bestScore)))

\* pickBestSpeedtestResult(v): an object, or Null
pickBestSpeedtestResult(v) ==
  IF ~Truthy(v) THEN Null
  ELSE IF v.k = "arr" THEN pickFromArray(v.items, 1, Null, 0)
  ELSE IF v.k = "obj"
    THEN IF Prop(v, "t") = JStr(<< "r" >>) THEN v
         ELSE Eager(IF IsObject(Prop(v, "r")) THEN Prop(v, "r")
                    ELSE IF IsObject(Prop(v, "a")) THEN Prop(v, "a")
                    ELSE Null, LAMBDA inner :
                IF inner = Null THEN v
                ELSE Eager(pickBestSpeedtestResult(inner), LAMBDA picked :
                       IF picked # Null THEN picked ELSE v))
  ELSE Null

RECURSIVE scanBlock(_, _, _, _, _)
\* the loop of extractJsonBlockFrom: the position at which the depth returns
\* to 0, or 0 when the text ends before
scanBlock(s, i, depth, inStr, esc) ==
  IF i > Len(s) THEN 0
  ELSE IF inStr
    THEN IF esc THEN scanBlock(s, i + 1, depth, TRUE, FALSE)
         ELSE IF s[i] = Backslash THEN scanBlock(s, i + 1, depth, TRUE, TRUE)
         ELSE IF s[i] = Quote THEN scanBlock(s, i + 1, depth, FALSE, FALSE)
         ELSE scanBlock(s, i + 1, depth, TRUE, FALSE)
  ELSE IF s[i] = Quote THEN scanBlock(s, i + 1, depth, TRUE, FALSE)
  ELSE IF s[i] \in {"{", "["} THEN scanBlock(s, i + 1, depth + 1, FALSE, FALSE)
  ELSE IF s[i] \in {"}", "]"}
    THEN IF depth - 1 = 0 THEN i
         ELSE scanBlock(s, i + 1, depth - 1, FALSE, FALSE)
  ELSE scanBlock(s, i + 1, depth, FALSE, FALSE)

\* extractJsonBlockFrom(s, start): the block and its last position, or Null
extractJsonBlockFrom(s, start) ==
  Eager(scanBlock(s, start, 0, FALSE, FALSE), LAMBDA e :
    IF e = 0 THEN Null ELSE [block |-> SubSeq(s, start, e), end |-> e])

RECURSIVE firstOpen(_, _)
\* s.slice(pos).search(/[\{\[]/): the first "{" or "[" from pos on, or 0
firstOpen(s, pos) ==
  IF pos > Len(s) THEN 0
  ELSE IF s[pos] \in {"{", "["} THEN pos
  ELSE firstOpen(s, pos + 1)

RECURSIVE collectBlocks(_, _, _)
\* the first loop of extractBestJsonBlock
collectBlocks(s, pos, blocks) ==
  IF pos > Len(s) \/ Len(blocks) >= BlockCap THEN blocks
  ELSE Eager(firstOpen(s, pos), LAMBDA start :
    IF start = 0 THEN blocks
    ELSE Eager(extractJsonBlockFrom(s, start), LAMBDA got :
      IF got = Null THEN collectBlocks(s, start + 1, blocks)
      ELSE collectBlocks(s, got.end + 1, Append(blocks, got.block))))

RECURSIVE bestOfBlocks(_, _, _, _)
\* the second loop of extractBestJsonBlock: blocks that do not parse are
\* skipped, a later block wins only with a higher score
bestOfBlocks(blocks, i, best, bestScore) ==
  IF i > Len(blocks) THEN best
  ELSE Eager(JSONparse(blocks[i]), LAMBDA r :
    IF ~r.ok THEN bestOfBlocks(blocks, i + 1, best, bestScore)
    ELSE Eager(pickBestSpeedtestResult(r.v), LAMBDA picked :
      Eager(IF picked # Null THEN picked ELSE r.v, LAMBDA obj :
        IF scoreCandidate(obj) > bestScore
          THEN bestOfBlocks(blocks, i + 1, obj, scoreCandidate(obj))
          ELSE bestOfBlocks(blocks, i + 1, best, bestScore))))

\* extractBestJsonBlock(text): the best-scoring parsed block, or Null
extractBestJsonBlock(s) ==
  bestOfBlocks(collectBlocks(s, 1, << >>), 1, Null, 0 - 1)

RECURSIVE trimStart(_)
trimStart(s) == IF s # << >> /\ Head(s) = " " THEN trimStart(Tail(s)) ELSE s

RECURSIVE trimEnd(_)
trimEnd(s) ==
  IF s # << >> /\ s[Len(s)] = " " THEN trimEnd(SubSeq(s, 1, Len(s) - 1)) ELSE s

\* text.trim()
trim(s) == trimEnd(trimStart(s))

\* safeJsonParse(text)
safeJsonParse(text) ==
  Eager(trim(text), LAMBDA s :
    IF s = << >> THEN [ok |-> FALSE, error |-> "empty_output"]
    ELSE Eager(JSONparse(s), LAMBDA r :
      IF r.ok
        THEN Eager(pickBestSpeedtestResult(r.v), LAMBDA picked :
               [ ok |-> TRUE,
                 value |-> IF picked # Null THEN picked ELSE r.v,
                 salvaged |-> picked # Null /\ picked # r.v ])
        ELSE Eager(extractBestJsonBlock(s), LAMBDA best :
               IF best # Null
                 THEN [ok |-> TRUE, value |-> best, salvaged |-> TRUE]
                 ELSE [ok |-> FALSE, error |-> "invalid_json"])))

(***************************************************************************)
(* Calls of the pure functions on their own                                *)
(***************************************************************************)
\* arguments given to computeRateLimitBackoffMs: integers around the table,
\* and the values Number() does not turn into a finite number
CountInputs ==
  { Num(n) : n \in (0 - MaxCount)..MaxCount } \cup { NaN, Infinity, Null }

InitFn ==
  /\ now = T0
  /\ host \in Hosts /\ detectRunner(host) = Null
  /\ config \in Configs /\ config.defaultIntervalMin = 0
  /\ finished = 0
  /\ call = NoCall
  /\ \E s \in {loadedState(Null, NoFile, config)} :
        /\ intervalMin = s.intervalMin
        /\ rateLimitUntil = s.rateLimitUntil
        /\ rateLimitCount = s.rateLimitCount
        /\ maxDown = s.maxDown
        /\ maxUp = s.maxUp
        /\ nextRunTs = s.nextRunTs
        /\ history = s.history
        /\ runnerInfo = s.runnerInfo
        /\ runnerName = s.runnerName
        /\ progress = s.progress
        /\ running = s.running
        /\ last = s.last
        /\ lastError = s.lastError
        /\ file = s.file
        /\ runs = s.runs
        /\ detecting = s.detecting

\* computeRateLimitBackoffMs(count) is called (each call is looked at on its
\* own: the function keeps no state from one call to the next)
CallBackoff ==
  /\ call = NoCall
  /\ \E c \in CountInputs :
       call' = [ fn |-> "computeRateLimitBackoffMs", arg |-> c,
                 out |-> computeRateLimitBackoffMs(c) ]
  /\ UNCHANGED << now, host, config, ctlVars, finished >>

\* throughputs given to niceGaugeMaxBucket: integers from below 0 to beyond
\* the step table, and the values Number() does not turn into a finite number
GaugeInputs ==
  { Num(n) : n \in (0 - MaxCount)..MaxMbps } \cup { NaN, Infinity, Null }

\* the fallbacks doRun passes: 250 for the download, 50 for the upload
GaugeFallbacks == { 250, 50 }

\* niceGaugeMaxBucket(mbps, fallback) is called
CallGauge ==
  /\ call = NoCall
  /\ \E v \in GaugeInputs, f \in GaugeFallbacks :
       call' = [ fn |-> "niceGaugeMaxBucket", arg |-> v, fallback |-> f,
                 out |-> niceGaugeMaxBucket(v, f) ]
  /\ UNCHANGED << now, host, config, ctlVars, finished >>

\* the text of an object member "key":value
Member(key, value) == << Quote, key, Quote, ":" >> \o value

RECURSIVE Joined(_)
\* the texts joined by commas
Joined(parts) ==
  IF Len(parts) = 0 THEN << >>
  ELSE IF Len(parts) = 1 THEN parts[1]
  ELSE parts[1] \o << "," >> \o Joined(Tail(parts))

ObjectText(members) == << "{" >> \o Joined(members) \o << "}" >>

ArrayText(items) == << "[" >> \o Joined(items) \o << "]" >>

StringText(c) == << Quote >> \o c \o << Quote >>

One == << "1" >>

\* "download":1,"upload":1,"ping":1
MetricsMembers == << Member("d", One), Member("u", One), Member("p", One) >>

\* the object a runner prints: {"download":1,"upload":1,"ping":1}
ResultObject == ObjectText(MetricsMembers)

\* "type":"result"
TypeResult == Member("t", StringText(<< "r" >>))

\* well-formed JSON texts: scalars, empty and small objects and arrays
SimpleTexts ==
  { One, StringText(<< "x" >>), StringText(<< >>),
    ObjectText(<< >>), ArrayText(<< >>),
    ResultObject,
    ObjectText(<< Member("i", One) >>),
    ObjectText(<< TypeResult >>),
    ObjectText(<< TypeResult >> \o MetricsMembers) }

\* objects with a result, a data or another member holding one of these
WrappedTexts ==
  { ObjectText(pre \o << Member(key, v) >>) :
      pre \in { << >>, MetricsMembers }, key \in {"r", "a", "x"}, v \in SimpleTexts }

\* arrays of one or two of these
ArrayTexts ==
  { ArrayText(<< v >>) : v \in SimpleTexts \cup WrappedTexts }
  \cup { ArrayText(<< v, w >>) : v \in SimpleTexts, w \in SimpleTexts }

WellFormedTexts ==
  SimpleTexts \cup WrappedTexts \cup ArrayTexts
  \cup { << " " >> \o ResultObject \o << " " >> }

\* the characters noise is made of
NoiseChars == {"{", "}", "[", "]", Quote, Backslash, "x"}

\* noise before the object: up to MaxNoise characters; after it: up to one
NoiseBefore == UNION { [1..n -> NoiseChars] : n \in 0..MaxNoise }

NoiseAfter == UNION { [1..n -> NoiseChars] : n \in 0..1 }

RECURSIVE Repeated(_, _)
Repeated(part, n) == IF n = 0 THEN << >> ELSE part \o Repeated(part, n - 1)

\* a line of progress as the Ookla CLI prints it before the result:
\* {"type":"download","download":1}
ProgressLine ==
  ObjectText(<< Member("t", StringText(<< "d" >>)), Member("d", One) >>) \o << " " >>

\* the result object inside noise, after BlockCap bracketed fragments of
\* noise, and after BlockCap lines of progress
NoisyTexts ==
  { pre \o ResultObject \o post : pre \in NoiseBefore, post \in NoiseAfter }
  \cup { Repeated(<< "[", "x", "]" >>, BlockCap) \o ResultObject,
         Repeated(ProgressLine, BlockCap) \o ResultObject }

\* texts given to safeJsonParse
TextInputs == WellFormedTexts \cup NoisyTexts \cup { << >>, << " " >> }

\* safeJsonParse(text) is called
CallParse ==
  /\ call = NoCall
  /\ \E text \in TextInputs :
       call' = [ fn |-> "safeJsonParse", arg |-> text, out |-> safeJsonParse(text) ]
  /\ UNCHANGED << now, host, config, ctlVars, finished >>

(***************************************************************************)
(* What detectRunner reads on a host.  Texts are sequences of characters:  *)
(* " " is a blank or line end, "/" a path, "o" the words of the Ookla      *)
(* CLI's version line, "c" the word speedtest-cli and "C" the same word    *)
(* with capital letters.                                                   *)
(***************************************************************************)
\* values of SPEEDTEST_BIN: unset or empty, blank, a path between blanks
EnvTexts == { << >>, << " " >>, << " ", "/", " " >> }

\* a candidate file of the bundle: missing, executable, made executable by
\* chmod, or present and not executable with a chmod that fails
FileStates == { "missing", "executable", "chmod", "locked" }

\* win32 has one candidate, tested for existence only; the other platforms
\* have one candidate directory per architecture, arm has two
Bundles ==
  { [win |-> TRUE, files |-> << f >>] : f \in {"missing", "executable"} }
    \cup { [win |-> FALSE, files |-> << f >>] : f \in FileStates }
    \cup { [win |-> FALSE, files |-> << f, g >>] : f \in FileStates, g \in FileStates }

\* stdout of sh -lc "command -v <cmd> 2>/dev/null || true": nothing (not
\* found, or the lookup was killed or could not be spawned), or a path line
WhichTexts == { << >>, << "/", " " >> }

\* stdout and stderr of speedtest --version
VersionOut == { << >>, << "o" >>, << "c", "o" >>, << "o", "C" >> }

VersionErr == { << >>, << "c" >> }

HostProbes ==
  [ env : EnvTexts, bundle : Bundles, speedtest : WhichTexts,
    vout : VersionOut, verr : VersionErr, stcli : WhichTexts, libre : WhichTexts ]

\* isExecutable(p) at the time of the call
isExecutable(win, f) == IF win THEN f # "missing" ELSE f = "executable"

RECURSIVE bundledFrom(_, _)
\* the loop over the candidates: the first that exists and is executable,
\* or is executable after chmod (a chmod that throws is swallowed)
bundledFrom(files, i) ==
  IF i > Len(files) THEN Null
  ELSE IF files[i] # "missing" /\ (isExecutable(FALSE, files[i]) \/ files[i] = "chmod")
    THEN [candidate |-> i]
  ELSE bundledFrom(files, i + 1)

\* resolveBundledSpeedtest(): the path of the bundled binary, else null
resolveBundledSpeedtest(b) ==
  IF b.win
    THEN IF b.files[1] # "missing" THEN [candidate |-> 1] ELSE Null
    ELSE bundledFrom(b.files, 1)

\* which(cmd): the trimmed stdout of the lookup, null when it is empty
which(stdout) == IF trim(stdout) = << >> THEN Null ELSE [path |-> trim(stdout)]

\* text.toLowerCase()
toLowerCase(text) == [ i \in 1..Len(text) |-> IF text[i] = "C" THEN "c" ELSE text[i] ]

\* (v.stdout || v.stderr || "").toLowerCase().includes("speedtest-cli")
isPythonCli(vout, verr) ==
  LET ver == toLowerCase(IF vout # << >> THEN vout ELSE verr)
  IN \E i \in 1..Len(ver) : ver[i] = "c"

\* what the steps of detectRunner find out about the host
hostOf(p) ==
  [ forced |-> trim(p.env) # << >>,
    bundled |-> resolveBundledSpeedtest(p.bundle) # Null,
    speedtest |-> IF which(p.speedtest) = Null THEN "none"
                  ELSE IF isPythonCli(p.vout, p.verr) THEN "python" ELSE "ookla",
    stcli |-> which(p.stcli) # Null,
    libre |-> which(p.libre) # Null ]

CallDetect ==
  /\ call = NoCall
  /\ \E p \in HostProbes :
       call' = [ fn |-> "detectRunner", arg |-> p, out |-> detectRunner(hostOf(p)) ]
  /\ UNCHANGED << now, host, config, ctlVars, finished >>

(***************************************************************************)
(* runCmd and runOoklaJsonWithProgress: one call, as the handlers it       *)
(* installs and the events that reach them.  "exit" is the process ending  *)
(* on its own (no handler listens to it), "timer" the timeout callback,    *)
(* "error" and "close" the events of the child process; "spawn_throw" is   *)
(* spawn() throwing.  close comes after the process has ended and its      *)
(* output streams are closed, so the timer can fire between the two.       *)
(***************************************************************************)
\* the state of a call after spawn() returned and the timer was armed
Spawned ==
  [ proc |-> "running", code |-> Null, killed |-> FALSE, timer |-> "armed",
    value |-> Null, resolves |-> 0, forceKilled |-> FALSE ]

\* resolve(v): the first call settles the promise, later calls do nothing
resolve(st, v) ==
  [st EXCEPT !.value = IF @ = Null THEN v ELSE @, !.resolves = @ + 1]

\* the catch block around spawn()
onSpawnThrow(st) ==
  resolve([st EXCEPT !.proc = "failed", !.timer = "none"],
          [code |-> Num(127), killed |-> FALSE, spawn_error |-> TRUE])

\* the process ends by itself with exit code c
onExit(st, c) ==
  IF st.proc = "running" THEN [st EXCEPT !.proc = "exited", !.code = Num(c)] ELSE st

\* the setTimeout callback: killed = true; p.kill("SIGKILL"), which ends a
\* process that is still running and does nothing to one that has ended
onTimer(st) ==
  IF st.timer # "armed" THEN st
  ELSE [st EXCEPT !.timer = "fired", !.killed = TRUE,
                  !.forceKilled = (st.proc = "running"),
                  !.proc = IF @ = "running" THEN "signalled" ELSE @]

\* p.on("error"): the process could not be launched
onError(st) ==
  resolve([st EXCEPT !.timer = IF @ = "armed" THEN "cleared" ELSE @,
                     !.proc = IF @ = "running" THEN "failed" ELSE @],
          [code |-> Num(127), killed |-> st.killed, spawn_error |-> TRUE])

\* p.on("close"): code is the exit code, null for a process ended by a signal
\* (the result has no spawn_error member, which reads as false)
onClose(st) ==
  resolve([st EXCEPT !.timer = IF @ = "armed" THEN "cleared" ELSE @],
          [code |-> IF st.proc = "exited" THEN st.code ELSE Null,
           killed |-> st.killed, spawn_error |-> FALSE])

RECURSIVE runEvents(_, _, _)
\* the handlers applied to the events in their order
runEvents(st, events, c) ==
  IF events = << >> THEN st
  ELSE runEvents(CASE Head(events) = "spawn_throw" -> onSpawnThrow(st)
                   [] Head(events) = "exit" -> onExit(st, c)
                   [] Head(events) = "timer" -> onTimer(st)
                   [] Head(events) = "error" -> onError(st)
                   [] OTHER -> onClose(st),
                 Tail(events), c)

\* runCmd(cmd, args, { timeoutMs }) under the events of one call
runCmd(events, c) == runEvents(Spawned, events, c)

\* the orders in which the events of one call can come: spawn throws; the
\* launch fails (error, then close); the process ends and close follows,
\* before the timeout or with the timeout in between; the timeout comes first
EventOrders ==
  { << "spawn_throw" >>, << "error", "close" >>, << "exit", "close" >>,
    << "exit", "timer", "close" >>, << "timer", "close" >> }

ExitCodes == { 0, 1 }

CallRunCmd ==
  /\ call = NoCall
  /\ \E events \in EventOrders, c \in ExitCodes :
       call' = [ fn |-> "runCmd", arg |-> [events |-> events, code |-> c],
                 out |-> runCmd(events, c) ]
  /\ UNCHANGED << now, host, config, ctlVars, finished >>

NextFn == CallBackoff \/ CallGauge \/ CallParse \/ CallDetect \/ CallRunCmd

SpecFn == InitFn /\ [][NextFn]_vars

(***************************************************************************)
(* Vocabulary of the properties                                            *)
(***************************************************************************)
\* now < rate_limit_until, with a window set
InWindowNow == rateLimitUntil > 0 /\ now < rateLimitUntil

\* the least number of whole minutes that cover ms milliseconds (ms > 0)
CeilMinutes(ms) ==
  CHOOSE m \in 0..(ms \div 60000 + 1) : m * 60000 >= ms /\ (m - 1) * 60000 < ms

\* the text "rate_limited: retry in <min>m"
RetryIn(min) == [ msg |-> "rate_limited: retry in", min |-> min, fallback |-> FALSE ]

\* the backoff of the step table, in minutes, for hit counts 1, 2, ...
StepMinutes == << 30, 60, 120, 240, 360 >>

BackoffOf(count) == StepMinutes[IF count > 5 THEN 5 ELSE count] * 60 * 1000

\* the entries of h no older than 24h at time t, and of these the newest
\* HistoryCap
NewestInWindow(h, t) ==
  LET inWin == SelectSeq(h, LAMBDA it : it.ts >= t - HISTORY_24H_MS)
  IN IF Len(inWin) > HistoryCap
       THEN SubSeq(inWin, Len(inWin) - HistoryCap + 1, Len(inWin))
       ELSE inWin

\* the primary's failure of run i was classified as rate-limiting
Classified(i) == runs[i].r # Null /\ (runs[i].r.code = 173 \/ runs[i].r.rl_text)

\* the step brings a run to its end
RunEnds ==
  /\ Len(runs') < Len(runs)
  /\ (EnsureDone \/ PrimaryExit \/ LookupDone \/ FallbackExit)

RateLimitMarker == "ookla_rate_limited_fallback"

NoRunnerText == "No speedtest runner found"

(***************************************************************************)
(* C1  Single-flight: in every reachable state at most one execution of    *)
(* doRun is in flight, and whenever running is true exactly one is.  A     *)
(* tick or runNow issued while running is true therefore never adds a      *)
(* second run (it would make two), and since a run has one process at a    *)
(* time, never a second process.                                           *)
(***************************************************************************)
C1_SingleFlight ==
  /\ Len(runs) <= 1
  /\ running => Len(runs) = 1

\* a run's process is running while the schedule is due and no window holds:
\* the tick taken here finds running = true
C1_Witness ==
  /\ running /\ Len(runs) = 1
  /\ runs[1].pc \in {"primary", "fallback"}
  /\ intervalMin > 0 /\ nextRunTs > 0 /\ now >= nextRunTs
  /\ ~InWindowNow

(***************************************************************************)
(* C2  Rate-limit gate: a controller created inside the window starts no   *)
(* run (neither the first one nor one created by a restart); inside the    *)
(* window tick and runNow leave the runs and running as they are; a tick   *)
(* with interval_min > 0 inside the window raises next_run_ts to at least  *)
(* rate_limit_until and changes nothing else of the controller (but for    *)
(* the runner detection a tick starts while no runner is known).           *)
(***************************************************************************)
C2_RateLimitGate ==
  /\ (InWindowNow => runs = << >> /\ ~running)
  /\ [][ /\ (Restart /\ InWindowNow' => runs' = << >> /\ ~running')
         /\ (InWindowNow /\ (Tick \/ RunNow) => runs' = runs /\ running' = running)
         /\ (InWindowNow /\ intervalMin > 0 /\ Tick =>
               /\ nextRunTs' >= rateLimitUntil
               /\ nextRunTs' >= nextRunTs
               /\ nextRunTs' \in {nextRunTs, rateLimitUntil}
               /\ UNCHANGED << intervalMin, rateLimitUntil, rateLimitCount, maxDown,
                               maxUp, history, progress, running, last, lastError,
                               file, runs >>) ]_vars

\* a controller created by a restart inside the window, with run-on-start and
\* a positive interval (the file it read was written by setIntervalMin, so
\* it holds no history and no gauge maxima): no run, next run not before the
\* end of the window
C2_Witness ==
  /\ InWindowNow
  /\ config.runOnStart /\ intervalMin > 0
  /\ rateLimitCount = 5 /\ history = << >> /\ maxDown = 0
  /\ runs = << >> /\ ~running
  /\ nextRunTs >= rateLimitUntil

(***************************************************************************)
(* C3 as stated: runNow inside the window sets last_error to "retry in"    *)
(* with the remaining wait rounded up to minutes, starts nothing and       *)
(* leaves running, last, history, rate_limit_until and rate_limit_count    *)
(* unchanged.                                                              *)
(***************************************************************************)
C3_Original ==
  [][ InWindowNow /\ RunNow =>
        /\ lastError' = RetryIn(CeilMinutes(rateLimitUntil - now))
        /\ runs' = runs
        /\ UNCHANGED << running, last, history, rateLimitUntil, rateLimitCount >> ]_vars

(***************************************************************************)
(* C3 amended: runNow inside the window sets last_error to "retry in"      *)
(* with the remaining wait rounded up to minutes, starts nothing and       *)
(* leaves running, last, rate_limit_until, rate_limit_count and the state  *)
(* file unchanged; history gains no entry, but the snapshot it returns     *)
(* prunes it: entries older than 24h and entries beyond the newest         *)
(* HistoryCap are dropped.                                                 *)
(***************************************************************************)
C3_RunNowInWindow ==
  [][ InWindowNow /\ RunNow =>
        /\ lastError' = RetryIn(CeilMinutes(rateLimitUntil - now))
        /\ runs' = runs
        /\ UNCHANGED << running, last, rateLimitUntil, rateLimitCount, file >>
        /\ history' = NewestInWindow(history, now) ]_vars

\* 1 ms after the window began with 30 min to go, runNow has been refused:
\* "retry in 30m" (29 min 59.999 s rounded up; a hit with count 5 would have
\* said 360m), no run, and the entry that has turned 24h old is gone
C3_Witness ==
  /\ now = T0 + 1 /\ InWindowNow
  /\ rateLimitCount = 5
  /\ lastError = RetryIn(30)
  /\ runs = << >> /\ ~running
  /\ "history" \in DOMAIN file /\ Len(history) < Len(file.history)
  /\ \A k \in 1..Len(history) : history[k].ts >= now - HISTORY_24H_MS

(***************************************************************************)
(* C4 as stated: in every reachable state in which the controller is       *)
(* rate-limited (rate_limit_until > 0 and now < rate_limit_until),         *)
(* next_run_ts >= rate_limit_until.                                        *)
(***************************************************************************)
C4_Original == InWindowNow => nextRunTs >= rateLimitUntil

(***************************************************************************)
(* C5 as stated: when a run whose primary failure was classified as        *)
(* rate-limiting ends (no fallback, fallback result, or fallback failure), *)
(* rate_limit_count has grown by exactly one and rate_limit_until is the   *)
(* step-table backoff of the new count after the classification (counted   *)
(* from a time between the classification and the end of the run, which    *)
(* is when the controller learns of it).                                   *)
(***************************************************************************)
C5_Original ==
  [][ \A i \in 1..Len(runs) :
        Classified(i) /\ RunEnds =>
          /\ rateLimitCount' = rateLimitCount + 1
          /\ rateLimitUntil' - BackoffOf(rateLimitCount') \in runs[i].classifiedAt..now ]_vars

(***************************************************************************)
(* C6 as stated: when a run ends without having been classified as         *)
(* rate-limited, with a result or with an error, rate_limit_count and      *)
(* rate_limit_until are both 0 right after.                                *)
(***************************************************************************)
C6_Original ==
  [][ \A i \in 1..Len(runs) :
        ~Classified(i) /\ RunEnds =>
          rateLimitCount' = 0 /\ rateLimitUntil' = 0 ]_vars

(***************************************************************************)
(* C6 amended: a run that was not classified as rate-limited ends either   *)
(* with a result (stage done), and then rate_limit_count and               *)
(* rate_limit_until are 0 right after, in memory and in the state file, or *)
(* with an error (stage error), and then both are left as they were.       *)
(***************************************************************************)
C6_ResetOnResult ==
  [][ \A i \in 1..Len(runs) :
        ~Classified(i) /\ RunEnds =>
          /\ progress' # Null /\ progress'.stage \in {"done", "error"}
          /\ progress'.stage = "done" =>
               /\ rateLimitCount' = 0 /\ rateLimitUntil' = 0
               /\ file'.rate_limit_count = 0 /\ file'.rate_limit_until = 0
          /\ progress'.stage = "error" =>
               UNCHANGED << rateLimitCount, rateLimitUntil >> ]_vars

\* a run has recorded its result after a window had been set (the history
\* still holds the entry of the rate-limited run): counter and window are 0
C6_Witness ==
  /\ ~running /\ runs = << >>
  /\ progress # Null /\ progress.stage = "done"
  /\ last # Null /\ last.ts = now
  /\ \E k \in 1..Len(history) : history[k].note = RateLimitMarker /\ history[k].ts < now
  /\ rateLimitCount = 0 /\ rateLimitUntil = 0
  /\ file.rate_limit_count = 0

(***************************************************************************)
(* C7  computeRateLimitBackoffMs(count): counts 1..5 give 30m, 1h, 2h, 4h, *)
(* 6h, each more than the one before; every count >= 6 gives what count 5  *)
(* gives; counts below 1 and values that are not numbers give what count 1 *)
(* gives.                                                                  *)
(***************************************************************************)
C7_BackoffSteps ==
  call.fn = "computeRateLimitBackoffMs" =>
    LET c == call.arg
        out == call.out
    IN /\ (IsNum(c) /\ c.v \in 1..5) =>
            /\ out = StepMinutes[c.v] * 60 * 1000
            /\ c.v > 1 => out > computeRateLimitBackoffMs(Num(c.v - 1))
       /\ ((IsNum(c) /\ c.v >= 6) \/ c = Infinity) =>
            /\ out = computeRateLimitBackoffMs(Num(5))
            /\ out = 6 * 60 * 60 * 1000
       /\ ((IsNum(c) /\ c.v < 1) \/ c \in {NaN, Null}) =>
            /\ out = computeRateLimitBackoffMs(Num(1))
            /\ out = 30 * 60 * 1000

\* the function has been called with count 6 and returned the 6h of count 5
C7_Witness ==
  /\ call.fn = "computeRateLimitBackoffMs"
  /\ call.arg = Num(6)
  /\ call.out = 6 * 60 * 60 * 1000

\* the step in which the fallback's process of run i exits with r, a result,
\* after the primary was classified as rate-limited, rate_limit_count being 0
FallbackResultStep(i, r) ==
  /\ runs[i].pc = "fallback" /\ Classified(i)
  /\ rateLimitCount = 0
  /\ ~r.killed /\ r.code = 0 /\ r.out # Null
  /\ Apply(fallbackExit(Ctl, i, r, now))
  /\ UNCHANGED envVars

\* what C8 says of the run's end apart from the metrics of last
FallbackRecorded(i) ==
  /\ last'.note = RateLimitMarker
  /\ last'.runner = runs[i].kind
  /\ Len(history') = Len(NewestInWindow(history, now)) + 1
  /\ SubSeq(history', 1, Len(history') - 1) = NewestInWindow(history, now)
  /\ history'[Len(history')].note = RateLimitMarker
  /\ history'[Len(history')].ts = now
  /\ history'[Len(history')].down_mbps = last'.down_mbps
  /\ rateLimitCount' = 1
  /\ ~running'

(***************************************************************************)
(* C8 as stated: from rate_limit_count = 0, when the primary is            *)
(* rate-limited and the fallback returns a result, last holds the          *)
(* fallback's values (down_mbps equal to the fallback's download), its     *)
(* note is the rate-limit-fallback marker, exactly one history entry with  *)
(* that note has been appended, rate_limit_count is 1 and running false.   *)
(***************************************************************************)
C8_Original ==
  [][ \A i \in 1..Len(runs) : \A r \in Exits(runs[i].kind) :
        FallbackResultStep(i, r) =>
          /\ last'.down_mbps = r.out.down_mbps
          /\ last'.up_mbps = r.out.up_mbps
          /\ last'.ping_ms = r.out.ping_ms
          /\ last'.jitter_ms = r.out.jitter_ms
          /\ FallbackRecorded(i) ]_vars

(***************************************************************************)
(* C8 amended: as C8, but last holds the fallback's value only for the     *)
(* metrics the fallback reported: a metric the fallback left null is       *)
(* filled with the value the primary's progress had reported for it (null  *)
(* if none).  When the fallback reports a download, down_mbps is that one. *)
(***************************************************************************)
C8_FallbackResult ==
  [][ \A i \in 1..Len(runs) : \A r \in Exits(runs[i].kind) :
        FallbackResultStep(i, r) =>
          /\ \A key \in {"ping_ms", "jitter_ms", "down_mbps", "up_mbps"} :
               last'[key] = IF r.out[key] # Null THEN r.out[key] ELSE progress[key]
          /\ FallbackRecorded(i) ]_vars

\* the fallback has returned down 812 after the primary had reported a
\* download of its own and was then rate-limited: last holds 812 with the
\* marker, the newest history entry carries it, the count is 1
C8_Witness ==
  /\ ~running /\ runs = << >>
  /\ rateLimitCount = 1
  /\ last # Null /\ "note" \in DOMAIN last
  /\ last.note = RateLimitMarker /\ last.down_mbps = Num(812)
  /\ last.runner = "speedtest-cli"
  /\ Len(history) > 0
  /\ history[Len(history)].note = RateLimitMarker
  /\ history[Len(history)].ts = last.ts
  /\ progress # Null /\ progress.stage = "done"

C10_SnapshotHistory ==
  [][ (Snapshot \/ RunNow \/ SetIntervalMin) =>
        /\ \A k \in 1..Len(history') :
             history'[k].ts >= now - HISTORY_24H_MS /\ history'[k].ts > 0
        /\ Len(history') <= HistoryCap
        /\ history' = NewestInWindow(history, now)
        /\ \A k \in 1..Len(history) : \A n \in 1..Len(history') :
             (history[k].ts >= now - HISTORY_24H_MS
                /\ \A m \in 1..Len(history') : history'[m] # history[k])
               => history[k].ts <= history'[n].ts ]_vars

\* the file held HistoryCap + 1 entries, all inside the window at T0; after a
\* snapshot at T0 the oldest is gone and the newest HistoryCap are left
C10_Witness ==
  /\ now = T0
  /\ "history" \in DOMAIN file
  /\ Len(file.history) = HistoryCap + 1
  /\ \A k \in 1..Len(file.history) : file.history[k].ts >= now - HISTORY_24H_MS
  /\ Len(history) = HistoryCap
  /\ \A k \in 1..HistoryCap : history[k].ts = file.history[k + 1].ts

(***************************************************************************)
(* C11 as stated, at the step the claim names: right after a completed run *)
(* has appended its entry to a history that was within the cap, the        *)
(* history in memory and the history written to the state file have at     *)
(* most HistoryCap entries.                                                *)
(***************************************************************************)
C11_Original ==
  [][ RunEnds /\ Len(history) <= HistoryCap =>
        /\ Len(history') <= HistoryCap
        /\ "history" \in DOMAIN file' => Len(file'.history) <= HistoryCap ]_vars

\* h2 is h with entries removed from its old end only
IsSuffix(h2, h) ==
  /\ Len(h2) <= Len(h)
  /\ h2 = SubSeq(h, Len(h) - Len(h2) + 1, Len(h))

\* the step brings a run to its end with a result recorded
RunEndsWithResult == RunEnds /\ progress' # Null /\ progress'.stage = "done"

(***************************************************************************)
(* C12  Within the life of a controller history is append-only: a run that *)
(* ends with a result (a rate-limited run with a fallback result included) *)
(* appends exactly one entry, whose ts is the time of completion, behind   *)
(* what pruning leaves of the old entries; a run that ends in an error     *)
(* leaves history as it is; every other operation leaves history as it is  *)
(* or removes entries from its old end; the entries are in non-decreasing  *)
(* order of ts in every state.                                             *)
(***************************************************************************)
C12_AppendOnly ==
  /\ \A k \in 1..(Len(history) - 1) : history[k].ts <= history[k + 1].ts
  /\ [][ ~Restart =>
           /\ RunEndsWithResult =>
                /\ Len(history') >= 1
                /\ history'[Len(history')].ts = now
                /\ SubSeq(history', 1, Len(history') - 1) = NewestInWindow(history, now)
                /\ IsSuffix(SubSeq(history', 1, Len(history') - 1), history)
           /\ (RunEnds /\ ~RunEndsWithResult) => history' = history
           /\ ~RunEnds => IsSuffix(history', history)
           /\ \A k \in 1..(Len(history') - 1) : history'[k].ts <= history'[k + 1].ts ]_vars

\* a run has ended with a result while older entries were in the window:
\* its entry, stamped with the time of completion, is the last one
C12_Witness ==
  /\ ~running /\ runs = << >>
  /\ progress # Null /\ progress.stage = "done"
  /\ last # Null /\ last.ts = now
  /\ Len(history) >= 2
  /\ history[Len(history)].ts = now
  /\ history[Len(history) - 1].ts < now

(***************************************************************************)
(* C13 as stated: after every step that writes the state file, the file    *)
(* holds interval_min, rate_limit_until, rate_limit_count, max_down_mbps,  *)
(* max_up_mbps and history, each equal to the value in memory (a field     *)
(* that is missing counts as the default a later load gives it: 0, or the  *)
(* empty history).                                                         *)
(***************************************************************************)
C13_Original ==
  [][ file' # file =>
        /\ file' # NoFile
        /\ Get(file', "interval_min", 0) = intervalMin'
        /\ Get(file', "rate_limit_until", 0) = rateLimitUntil'
        /\ Get(file', "rate_limit_count", 0) = rateLimitCount'
        /\ Get(file', "max_down_mbps", 0) = maxDown'
        /\ Get(file', "max_up_mbps", 0) = maxUp'
        /\ Get(file', "history", << >>) = history' ]_vars

(***************************************************************************)
(* C14 as stated: within the life of a controller no step lowers           *)
(* max_down_mbps or max_up_mbps, and after a run that ended with a result  *)
(* each is at least the nice bucket of the throughput of that run.         *)
(***************************************************************************)
C14_Original ==
  [][ ~Restart =>
        /\ maxDown' >= maxDown
        /\ maxUp' >= maxUp
        /\ RunEndsWithResult =>
             /\ maxDown' >= niceGaugeMaxBucket(last'.down_mbps, 250)
             /\ maxUp' >= niceGaugeMaxBucket(last'.up_mbps, 50) ]_vars

\* the buckets of the gauge, as the specification lists them
GaugeTable ==
  { 25, 50, 75, 100, 150, 200, 250, 300, 400, 500, 750, 1000, 1500, 2000, 3000, 5000 }

(***************************************************************************)
(* C15  niceGaugeMaxBucket(v, fallback): for a finite v with 0 < v <= 5000 *)
(* the result is the smallest bucket of the table that is >= v (150 for    *)
(* 137); for v that is 0, negative, null or not finite it is the bucket of *)
(* the fallback, 250 for the download and 50 for the upload; the result is *)
(* never below the value it was computed from (v when v is positive and    *)
(* finite, above 5000 included, else the fallback).                        *)
(***************************************************************************)
C15_GaugeBucket ==
  call.fn = "niceGaugeMaxBucket" =>
    LET v == call.arg
        f == call.fallback
        out == call.out
    IN /\ (IsNum(v) /\ v.v > 0 /\ v.v <= 5000) =>
            /\ out \in GaugeTable
            /\ out >= v.v
            /\ \A b \in GaugeTable : b >= v.v => out <= b
       /\ v = Num(137) => out = 150
       /\ (~IsNum(v) \/ v.v <= 0) =>
            /\ out \in GaugeTable /\ out >= f
            /\ \A b \in GaugeTable : b >= f => out <= b
            /\ f = 250 => out = 250
            /\ f = 50 => out = 50
       /\ IsNum(v) => out >= v.v

\* the function has been called with a download of 137 and returned 150
C15_Witness ==
  /\ call.fn = "niceGaugeMaxBucket"
  /\ call.arg = Num(137) /\ call.fallback = 250
  /\ call.out = 150

\* min floored and clamped into [0, 1440]; 0 for what is not a number
FlooredClamped(m) ==
  IF m.t \in {"num", "half"}
    THEN IF m.v < 0 THEN 0 ELSE IF m.v > 1440 THEN 1440 ELSE m.v
    ELSE 0

\* the controller as the call setIntervalMin(m), made now, leaves it
AfterSetInterval(m) == settle(setIntervalMin(Ctl, m, now), host)

\* what C16 says of the controller z left by setIntervalMin(m), apart from
\* history
IntervalSet(z, m) ==
  /\ z.intervalMin = FlooredClamped(m)
  /\ z.file # NoFile /\ z.file.interval_min = z.intervalMin
  /\ z.nextRunTs = IF z.intervalMin > 0 THEN now + z.intervalMin * 60 * 1000 ELSE 0
  /\ z.runs = runs
  /\ z.running = running /\ z.last = last /\ z.lastError = lastError
  /\ z.rateLimitUntil = rateLimitUntil /\ z.rateLimitCount = rateLimitCount

(***************************************************************************)
(* C16 as stated: in whatever state it is called, setIntervalMin(min) sets *)
(* interval_min to min floored and clamped into [0, 1440] (0 for a         *)
(* non-numeric min), writes it to the state file, sets next_run_ts to now  *)
(* + interval_min minutes, or to 0 when interval_min is 0, starts no run   *)
(* and leaves running, last, last_error, history and the rate-limit state  *)
(* unchanged.                                                              *)
(***************************************************************************)
C16_Original ==
  \A m \in IntervalInputs :
    \E z \in {AfterSetInterval(m)} :
      IntervalSet(z, m) /\ z.history = history

(***************************************************************************)
(* C16 amended: as C16, but for history: the snapshot setIntervalMin       *)
(* returns prunes it, so it gains no entry, and entries older than 24h and *)
(* entries beyond the newest HistoryCap are dropped.                       *)
(***************************************************************************)
C16_SetInterval ==
  \A m \in IntervalInputs :
    \E z \in {AfterSetInterval(m)} :
      IntervalSet(z, m) /\ z.history = NewestInWindow(history, now)

\* setIntervalMin has been called with a value above 1440 on a controller
\* with entries in its history: the interval is 1440, in memory and in the
\* file, and the next run is due a day from now
C16_Witness ==
  /\ intervalMin = 1440
  /\ file # NoFile /\ file.interval_min = 1440
  /\ nextRunTs = now + 1440 * 60 * 1000
  /\ history # << >>
  /\ ~running

\* how long after the first call the second call of setIntervalMin is made:
\* at once, 1 ms later, a whole history window later
SecondCallDelays == { 0, 1, HISTORY_24H_MS }

\* the controller as setIntervalMin(m), called at time t on the controller s,
\* leaves it
SetIntervalAt(s, m, t) == settle(setIntervalMin(s, m, t), host)

\* next_run_ts as a call at time t sets it for the interval min
ScheduledFrom(t, min) == IF min > 0 THEN t + min * 60 * 1000 ELSE 0

(***************************************************************************)
(* C17 as stated: in whatever state, setIntervalMin(m) called twice in a   *)
(* row with the same m leaves the interval_min in memory and in the state  *)
(* file that the first call left, and the controller after the second call *)
(* differs from the controller after the first only in next_run_ts, which  *)
(* is counted from the time of the second call.                            *)
(***************************************************************************)
C17_Original ==
  \A m \in IntervalInputs : \A d \in SecondCallDelays :
    \E once \in {SetIntervalAt(Ctl, m, now)} :
      \E twice \in {SetIntervalAt(once, m, now + d)} :
        /\ twice.intervalMin = once.intervalMin
        /\ twice.file = once.file
        /\ twice = [once EXCEPT !.nextRunTs = ScheduledFrom(now + d, once.intervalMin)]

(***************************************************************************)
(* C17 amended: as C17, but the second call, like every call that returns  *)
(* a snapshot, also prunes history: the controller after the second call   *)
(* differs from the controller after the first only in next_run_ts and in  *)
(* the history entries that have left the 24h window in between; it is the *)
(* controller a single call made at the time of the second would leave.    *)
(***************************************************************************)
C17_Idempotent ==
  \A m \in IntervalInputs : \A d \in SecondCallDelays :
    \E once \in {SetIntervalAt(Ctl, m, now)} :
      \E twice \in {SetIntervalAt(once, m, now + d)} :
        /\ twice.intervalMin = once.intervalMin
        /\ twice.file = once.file
        /\ twice = [once EXCEPT !.nextRunTs = ScheduledFrom(now + d, once.intervalMin),
                                !.history = NewestInWindow(once.history, now + d)]
        /\ twice = SetIntervalAt(Ctl, m, now + d)

\* setIntervalMin(30) has been called 1 ms after the start on a controller
\* that still holds history; the file is the one setIntervalMin writes (no
\* history in it), and a second call finds this state
C17_Witness ==
  /\ now = T0 + 1
  /\ intervalMin = 30 /\ nextRunTs = now + 30 * 60 * 1000
  /\ file = [ interval_min |-> 30, rate_limit_until |-> rateLimitUntil,
              rate_limit_count |-> rateLimitCount ]
  /\ history # << >>
  /\ ~running

\* the controller as tick(), called now, leaves it
AfterTick == settle(tick(Ctl, now), host)

(***************************************************************************)
(* C18  In every reachable state with interval_min = 0, whatever the       *)
(* rate-limit state, tick() starts no run and leaves next_run_ts, running, *)
(* last, last_error, progress, history, the rate-limit state, the interval *)
(* and the state file as they are (all it may do is start the detection of *)
(* a runner).  Holding in every state, this holds for any number of ticks. *)
(***************************************************************************)
C18_TickDisabled ==
  intervalMin = 0 =>
    \E z \in {AfterTick} :
      /\ z.runs = runs
      /\ z.nextRunTs = nextRunTs /\ z.running = running
      /\ z.last = last /\ z.lastError = lastError /\ z.progress = progress
      /\ z.history = history
      /\ z.rateLimitUntil = rateLimitUntil /\ z.rateLimitCount = rateLimitCount
      /\ z.intervalMin = intervalMin /\ z.file = file

\* the interval has been 0 since the start (no file was ever written) and a
\* tick has been taken (only tick starts a detection outside a run): nothing
\* runs, nothing is scheduled
C18_Witness ==
  /\ intervalMin = 0 /\ config.defaultIntervalMin = 0 /\ file = NoFile
  /\ detecting > 0
  /\ now > T0
  /\ ~running /\ runs = << >> /\ nextRunTs = 0
  /\ last = Null /\ lastError = Null /\ history = << >>

\* the conditions under which C19 has tick start a run
TickDue ==
  /\ intervalMin > 0
  /\ ~InWindowNow
  /\ now >= nextRunTs
  /\ ~running

(***************************************************************************)
(* C19  In every reachable state tick() starts a run exactly when          *)
(* interval_min > 0, the controller is not inside a rate-limit window,     *)
(* now >= next_run_ts and running is false: it then leaves next_run_ts at  *)
(* now + interval_min minutes and one more run in flight, with running     *)
(* true; in every other state it leaves the runs and running as they are.  *)
(***************************************************************************)
C19_TickStarts ==
  \E z \in {AfterTick} :
    /\ TickDue =>
         /\ Len(z.runs) = Len(runs) + 1
         /\ z.runs[Len(z.runs)].pc \in {"ensure", "primary"}
         /\ z.running
         /\ z.nextRunTs = now + intervalMin * 60 * 1000
    /\ ~TickDue =>
         /\ z.runs = runs
         /\ z.running = running

\* the state a due tick leaves: the controller began with interval 0 (no run
\* on start), the clock has reached T0 + 30 min, the interval is 30, a run has
\* just been started and the next one is due 30 minutes from now
C19_Witness ==
  /\ now = T0 + HalfHourMs
  /\ config.defaultIntervalMin = 0
  /\ intervalMin = 30 /\ file # NoFile /\ file.interval_min = 30
  /\ ~InWindowNow
  /\ running /\ Len(runs) = 1
  /\ progress # Null /\ progress.stage = "starting"
  /\ nextRunTs = now + 30 * 60 * 1000
  /\ last = Null

(***************************************************************************)
(* C20  Every started run eventually finishes: when every process the run  *)
(* waits for exits or is killed by its timeout, every state with running   *)
(* true is followed by a state with running false, whichever way the run   *)
(* goes (result, rate limit, timeout, launch failure, unparseable output,  *)
(* fallback).                                                              *)
(***************************************************************************)
C20_RunsFinish == running ~> ~running

\* a run whose process was killed by the timeout has ended: the error is
\* recorded and running is false
C20_Witness ==
  /\ ~running /\ runs = << >>
  /\ progress # Null /\ progress.stage = "error"
  /\ lastError = Err("speedtest timeout")

\* the exit runCmd resolves with when the process could not be launched
SpawnError == Exit(FALSE, TRUE, 127, FALSE, Null)

\* the runner kinds installed on the host
InstalledKinds(h) ==
  (IF h.forced \/ h.bundled \/ h.speedtest = "ookla" THEN {"ookla"} ELSE {})
  \cup (IF h.stcli \/ h.speedtest = "python" THEN {"speedtest-cli"} ELSE {})
  \cup (IF h.libre THEN {"librespeed-cli"} ELSE {})

\* the controller after the primary of run i could not be launched and the
\* lookup of a fallback runner, if one was made, has resolved
AfterSpawnFailure(i) ==
  Eager(primaryExit(Ctl, i, SpawnError, now), LAMBDA z :
    IF Len(z.runs) = Len(runs) /\ z.runs[i].pc = "lookup"
      THEN lookupDone(z, i, host, now)
      ELSE z)

(***************************************************************************)
(* C21 as stated: whatever the kind of the primary runner, when its        *)
(* process cannot be launched and another runner kind is installed, the    *)
(* run goes on with a fallback process of another installed kind; and the  *)
(* exit of a fallback process, whatever it is, ends the run (no further    *)
(* fallback).                                                              *)
(***************************************************************************)
C21_Original ==
  \A i \in 1..Len(runs) :
    /\ runs[i].pc = "primary" /\ InstalledKinds(host) \ {runs[i].kind} # {} =>
         \E z \in {AfterSpawnFailure(i)} :
           /\ Len(z.runs) = Len(runs)
           /\ z.runs[i].pc = "fallback"
           /\ z.runs[i].kind \in InstalledKinds(host) \ {runs[i].kind}
    /\ runs[i].pc = "fallback" =>
         \A r \in Exits(runs[i].kind) :
           Len(fallbackExit(Ctl, i, r, now).runs) < Len(runs)

\* the text of the error the primary's failure of a run stands for:
\* "speedtest spawn failed", "speedtest exit", "speedtest invalid_json"
PrimaryErrorText(run) ==
  IF run.why = "spawn" THEN "speedtest spawn failed"
  ELSE IF run.why = "parse" THEN "speedtest invalid_json"
  ELSE "speedtest exit"

(***************************************************************************)
(* C22 as stated, for a primary failure that is not rate-limiting: when    *)
(* the lookup finds no fallback runner, and when the fallback's process    *)
(* fails too (killed, not launched, non-zero exit, output not parseable),  *)
(* the run ends with last_error holding the text of the primary's error    *)
(* and running false.                                                      *)
(***************************************************************************)
C22_Original ==
  \A i \in 1..Len(runs) :
    /\ runs[i].pc = "lookup" /\ ~rateLimited(runs[i].r)
         /\ findFallbackRunner(host) = Null =>
         \E z \in {lookupDone(Ctl, i, host, now)} :
           z.lastError = Err(PrimaryErrorText(runs[i])) /\ ~z.running
    /\ runs[i].pc = "fallback" /\ ~rateLimited(runs[i].r) =>
         \A r \in Exits(runs[i].kind) :
           IsThrown(simpleOutcome(runs[i].kind, r)) =>
             \E z \in {fallbackExit(Ctl, i, r, now)} :
               z.lastError = Err(PrimaryErrorText(runs[i])) /\ ~z.running

\* the exit of a process killed when the run's timeout fired
Killed == Exit(TRUE, FALSE, 0, FALSE, Null)

\* "speedtest timeout after ..." for Ookla, "<kind> timeout after ..." else
TimeoutText(kind) == IF kind = "ookla" THEN "speedtest timeout" ELSE kind \o " timeout"

\* the controller after the process of run i (primary or fallback) was killed
\* by the timeout
AfterTimeout(i) ==
  IF runs[i].pc = "primary" THEN primaryExit(Ctl, i, Killed, now)
  ELSE fallbackExit(Ctl, i, Killed, now)

(***************************************************************************)
(* C23  Whenever a run waits for a process (the primary's or the           *)
(* fallback's) and that process is killed by the timeout, the run is over  *)
(* with that exit: no lookup of a fallback, no further process; last_error *)
(* is the timeout text of the runner that was killed, running is false,    *)
(* and history, last and the state file are as before.                     *)
(***************************************************************************)
C23_TimeoutEndsRun ==
  \A i \in 1..Len(runs) :
    runs[i].pc \in {"primary", "fallback"} =>
      \E z \in {AfterTimeout(i)} :
        /\ z.runs = RemoveAt(runs, i)
        /\ z.lastError = Err(TimeoutText(runs[i].kind))
        /\ ~z.running
        /\ z.history = history /\ z.last = last /\ z.file = file

\* the Ookla process of a host that also has speedtest-cli was killed: the
\* run is over with the timeout text, nothing runs, no result was recorded
C23_Witness ==
  /\ host.stcli /\ runnerName = "ookla"
  /\ lastError = Err("speedtest timeout")
  /\ ~running /\ runs = << >>
  /\ last = Null /\ finished = 1

\* what the next event of run i can make of the controller: the detection it
\* awaits resolves, its process exits in one of the ways it can, or the
\* fallback lookup resolves
Outcomes(i) ==
  IF runs[i].pc = "ensure" THEN { ensureDone(Ctl, i, host, now) }
  ELSE IF runs[i].pc = "primary"
    THEN { primaryExit(Ctl, i, r, now) : r \in Exits(runs[i].kind) }
  ELSE IF runs[i].pc = "lookup" THEN { lookupDone(Ctl, i, host, now) }
  ELSE IF runs[i].pc = "fallback"
    THEN { fallbackExit(Ctl, i, r, now) : r \in Exits(runs[i].kind) }
  ELSE { }

\* z is the controller after run i ended in the plain branch of the catch
\* block (stage "error")
EndedInError(z) ==
  /\ Len(z.runs) < Len(runs)
  /\ z.progress # Null /\ z.progress.stage = "error"

(***************************************************************************)
(* C24  Whenever an event ends a run with a failure that is not            *)
(* rate-limiting, last_error is the text of the error, running is false,   *)
(* and next_run_ts, interval_min, rate_limit_until, rate_limit_count,      *)
(* last, history, max_down_mbps, max_up_mbps and the state file are        *)
(* exactly as they were before the event.                                  *)
(***************************************************************************)
C24_ErrorFrame ==
  \A i \in 1..Len(runs) :
    \A z \in Outcomes(i) :
      EndedInError(z) =>
        /\ DOMAIN z.lastError = {"msg"}
        /\ ~z.running
        /\ z.nextRunTs = nextRunTs /\ z.intervalMin = intervalMin
        /\ z.rateLimitUntil = rateLimitUntil /\ z.rateLimitCount = rateLimitCount
        /\ z.last = last /\ z.history = history
        /\ z.maxDown = maxDown /\ z.maxUp = maxUp
        /\ z.file = file

\* a scheduled run (interval 30, next run half an hour after the start) ended
\* later than it began with "speedtest exit" on a host without a fallback
\* runner: the schedule is the one made at the start, nothing was written
C24_Witness ==
  /\ lastError = Err("speedtest exit")
  /\ ~running /\ runs = << >> /\ finished = 1
  /\ progress # Null /\ progress.stage = "error"
  /\ intervalMin = 30 /\ nextRunTs = T0 + HalfHourMs /\ now > T0
  /\ rateLimitCount = 0 /\ last = Null /\ file = NoFile

\* run i waits for the fallback lookup after its primary was rate-limited,
\* and the host has no fallback runner
RateLimitedNoFallback(i) ==
  /\ runs[i].pc = "lookup"
  /\ rateLimited(runs[i].r)
  /\ findFallbackRunner(host) = Null

(***************************************************************************)
(* C25  Whenever the primary of a run was rate-limited and the lookup      *)
(* finds no fallback runner, the run ends there: the hit count goes up by  *)
(* one, the window is now + the backoff of the new count, last_error is    *)
(* "rate_limited: retry in Nm" with N that backoff in minutes, next_run_ts *)
(* is at least rate_limit_until, running is false, last and history are    *)
(* unchanged.  This holds with interval_min = 0 as with any other          *)
(* interval.                                                               *)
(***************************************************************************)
C25_RateLimitedNoFallback ==
  \A i \in 1..Len(runs) :
    RateLimitedNoFallback(i) =>
      \E z \in {lookupDone(Ctl, i, host, now)} :
        /\ z.runs = RemoveAt(runs, i)
        /\ z.rateLimitCount = rateLimitCount + 1
        /\ z.rateLimitUntil = now + BackoffOf(z.rateLimitCount)
        /\ z.lastError = RetryIn(BackoffOf(z.rateLimitCount) \div 60000)
        /\ z.nextRunTs >= z.rateLimitUntil
        /\ ~z.running
        /\ z.last = last /\ z.history = history
        /\ z.intervalMin = intervalMin

\* with interval 0 the first hit of a host without a fallback runner has been
\* recorded: "retry in 30m", the next run is set to the end of the window
\* although no schedule exists, no result and no history entry
C25_Witness ==
  /\ intervalMin = 0 /\ findFallbackRunner(host) = Null
  /\ rateLimitCount = 1 /\ rateLimitUntil > now
  /\ lastError = RetryIn(30)
  /\ progress # Null /\ progress.stage = "rate_limited"
  /\ nextRunTs = rateLimitUntil
  /\ ~running /\ runs = << >>
  /\ last = Null /\ history = << >>

\* the controller a (re)start of the process creates now on the state file
AfterCreate == settle(create(file, config, now), host)

(***************************************************************************)
(* C26 as stated: a controller created with run-on-start enabled and       *)
(* outside any rate-limit window has started exactly one run when          *)
(* createSpeedtestController returns, whatever the interval is (0, the     *)
(* default, included).                                                     *)
(***************************************************************************)
C26_Original ==
  \E z \in {AfterCreate} :
    config.runOnStart /\ (z.rateLimitUntil = 0 \/ now >= z.rateLimitUntil) =>
      Len(z.runs) = 1 /\ z.running

\* the controller after runNow() called now
AfterRunNow == settle(runNow(Ctl, now), host)

(***************************************************************************)
(* C27  Whenever runNow is called outside a rate-limit window while no run *)
(* is in progress, it starts a run, whatever next_run_ts and interval_min  *)
(* are (interval_min = 0 and a next run still in the future included), and *)
(* next_run_ts and interval_min are what they were.                        *)
(***************************************************************************)
C27_RunNowBypasses ==
  ~InWindowNow /\ ~running =>
    \E z \in {AfterRunNow} :
      /\ z.running /\ Len(z.runs) = Len(runs) + 1
      /\ z.nextRunTs = nextRunTs
      /\ z.intervalMin = intervalMin

\* scheduling is disabled and was so from the start (default interval 0, no
\* state file written), yet a run is in progress: only runNow starts one here
C27_Witness ==
  /\ config.defaultIntervalMin = 0 /\ file = NoFile
  /\ intervalMin = 0 /\ nextRunTs = 0 /\ rateLimitUntil = 0
  /\ running /\ Len(runs) = 1

\* the snapshots the controller hands out now: the one of a snapshot request
\* and the ones runNow and setIntervalMin return
SnapshotsNow ==
  { snapshotOf(snapshotPrune(Ctl, now)), snapshotOf(runNow(Ctl, now)) }
  \cup { snapshotOf(setIntervalMin(Ctl, m, now)) : m \in IntervalInputs }

(***************************************************************************)
(* C28  In every snapshot (of a snapshot request, of runNow, of            *)
(* setIntervalMin) progress is null unless running is true, also after a   *)
(* run ended with a result, with an error or with a rate-limit hit and     *)
(* the controller still holds that run's progress record.                  *)
(***************************************************************************)
C28_ProgressOnlyRunning ==
  \A sn \in SnapshotsNow :
    /\ sn.progress # Null => sn.running
    /\ ~sn.running => sn.progress = Null

\* a run has ended with a result and the controller keeps its progress record
\* (stage "done"), no run is in progress: the snapshots taken here show null
C28_Witness ==
  /\ ~running /\ runs = << >>
  /\ progress # Null /\ progress.stage = "done"
  /\ last # Null

(***************************************************************************)
(* C29 as stated: for every well-formed JSON text, safeJsonParse returns   *)
(* ok with the value JSON.parse gives for the whole text, not a member of  *)
(* it and not an element of it.                                            *)
(***************************************************************************)
C29_Original ==
  call.fn = "safeJsonParse" /\ JSONparse(call.arg).ok =>
    call.out.ok /\ call.out.value = JSONparse(call.arg).v

\* the text holds the object {"download":1,"upload":1,"ping":1}
ContainsResultObject(text) ==
  \E i \in 1..Len(text) :
    i + Len(ResultObject) - 1 <= Len(text)
      /\ SubSeq(text, i, i + Len(ResultObject) - 1) = ResultObject

\* an object with download, upload and ping
HasMetrics(v) == v.k = "obj" /\ { << "d" >>, << "u" >>, << "p" >> } \subseteq DOMAIN v.m

(***************************************************************************)
(* C30 as stated: for every text that holds a complete JSON object with    *)
(* download, upload and ping, whatever surrounds it (braces, brackets and  *)
(* quotes, balanced or not, more bracketed fragments than the block cap),  *)
(* safeJsonParse returns ok with an object that has download, upload and   *)
(* ping.                                                                   *)
(***************************************************************************)
C30_Original ==
  call.fn = "safeJsonParse" /\ ContainsResultObject(call.arg) =>
    call.out.ok /\ HasMetrics(call.out.value)

\* the metric fields of the progress record
ProgressFields == {"ping_ms", "jitter_ms", "down_mbps", "up_mbps"}

(***************************************************************************)
(* C31 as stated: whenever the Ookla process of a run is running and       *)
(* delivers a progress event, every metric field of the live progress      *)
(* that had a non-null value has a non-null value afterwards.              *)
(***************************************************************************)
C31_Original ==
  \A i \in 1..Len(runs) :
    runs[i].pc = "primary" /\ runs[i].kind = "ookla" /\ progress # Null =>
      \A p \in ProgressEvents :
        \E z \in {onProgress(Ctl, p)} :
          \A f \in ProgressFields :
            progress[f] # Null => z.progress[f] # Null

LiveStages == {"starting", "ping", "download", "upload"}

EndStages == {"done", "error", "rate_limited"}

(***************************************************************************)
(* C32  Stage machine.  While running is true the progress stage is        *)
(* starting, ping, download or upload; a run begins at starting; a         *)
(* progress event moves the stage to ping, download or upload; an event    *)
(* of a run that does not end it leaves the stage and running as they      *)
(* are; an event that ends the run leaves running false and the stage      *)
(* done, error or rate_limited: error or rate_limited with last_error      *)
(* non-null and no result recorded, done with a result recorded now (last  *)
(* and the newest history entry carry the time of the end).  While no run  *)
(* is in progress the stage of a progress record kept is one of the three  *)
(* end stages, and error or rate_limited go with a last_error.             *)
(***************************************************************************)
C32_StageMachine ==
  /\ running => progress # Null /\ progress.stage \in LiveStages
  /\ ~running /\ progress # Null =>
       /\ progress.stage \in EndStages
       /\ progress.stage \in {"error", "rate_limited"} => lastError # Null
       /\ progress.stage = "done" => last # Null
  /\ ~InWindowNow /\ ~running =>
       \E z \in {AfterRunNow} : z.progress.stage = "starting"
  /\ \A i \in 1..Len(runs) :
       /\ runs[i].pc = "primary" /\ runs[i].kind = "ookla" =>
            \A p \in ProgressEvents :
              \E z \in {onProgress(Ctl, p)} :
                z.running /\ z.progress.stage \in {"ping", "download", "upload"}
       /\ \A z \in Outcomes(i) :
            IF Len(z.runs) = Len(runs)
              THEN z.running /\ z.progress = progress
              ELSE /\ ~z.running
                   /\ z.progress.stage \in EndStages
                   /\ z.progress.stage \in {"error", "rate_limited"} =>
                        z.lastError # Null /\ z.last = last /\ z.history = history
                   /\ z.progress.stage = "done" =>
                        /\ z.last # Null /\ z.last.ts = now
                        /\ z.history # << >>
                        /\ z.history[Len(z.history)].ts = now

\* a run went from starting through ping and download (both values are on
\* the record) and then failed: stage error, last_error set, running false
C32_Witness ==
  /\ ~running /\ runs = << >>
  /\ progress # Null /\ progress.stage = "error"
  /\ progress.ping_ms = Num(11) /\ progress.down_mbps = Num(90)
  /\ lastError # Null

(***************************************************************************)
(* C33  (as stated)  An event that ends a run with a result recorded       *)
(* (stage done: last updated and a history entry appended) leaves          *)
(* last_error null, also when the primary was rate-limited and the         *)
(* fallback runner produced the result.                                    *)
(***************************************************************************)
C33_Original ==
  \A i \in 1..Len(runs) :
    \A z \in Outcomes(i) :
      Len(z.runs) < Len(runs) /\ z.progress.stage = "done" => z.lastError = Null

\* the calls of detectRunner that have been started and have not resolved:
\* those made through ensureRunner by tick and by the executions of doRun
DetectionsInFlight ==
  detecting + Cardinality({ i \in 1..Len(runs) : runs[i].pc = "ensure" })

(***************************************************************************)
(* C34  (as stated)  detectRunner is started at most once per controller   *)
(* lifetime, also while a detection is still in progress: so at no time    *)
(* are two detections of one controller in flight.                         *)
(***************************************************************************)
C34_Original == DetectionsInFlight <= 1

\* the five options of runner detection, in the order of the claim
OptionKinds ==
  << "ookla", "ookla", "ookla", "speedtest-cli", "librespeed-cli" >>

\* the options that are available on the host probed as p
Available(p) ==
  { k \in 1..5 :
      \/ k = 1 /\ \E i \in 1..Len(p.env) : p.env[i] # " "
      \/ k = 2 /\ \E i \in 1..Len(p.bundle.files) :
                    IF p.bundle.win THEN p.bundle.files[i] = "executable"
                    ELSE p.bundle.files[i] \in {"executable", "chmod"}
      \/ k = 3 /\ p.speedtest # << >>
               /\ ~ (\E i \in 1..Len(p.vout) : p.vout[i] \in {"c", "C"})
               /\ ~ (p.vout = << >> /\ p.verr = << "c" >>)
      \/ k = 4 /\ p.stcli # << >>
      \/ k = 5 /\ p.libre # << >> }

(***************************************************************************)
(* C35  detectRunner returns a runner of the kind of the first available   *)
(* option in the order override, bundled binary, installed speedtest that  *)
(* is not the Python CLI, speedtest-cli, librespeed-cli, for every         *)
(* combination of what the host has; it returns null exactly when none of  *)
(* the five is available.                                                  *)
(***************************************************************************)
C35_DetectOrder ==
  call.fn = "detectRunner" =>
    LET A == Available(call.arg)
    IN IF A = {} THEN call.out = Null
       ELSE /\ call.out # Null
            /\ call.out.kind = OptionKinds[CHOOSE k \in A : \A j \in A : k <= j]

\* the last option is taken: blank override, a bundle file that cannot be
\* made executable, a speedtest that is the Python CLI, no speedtest-cli
C35_Witness ==
  /\ call.fn = "detectRunner"
  /\ call.arg.env = << " " >>
  /\ call.arg.bundle = [win |-> FALSE, files |-> << "locked", "missing" >>]
  /\ call.arg.speedtest # << >> /\ call.arg.vout = << "o", "C" >>
  /\ call.arg.stcli = << >> /\ call.arg.libre # << >>
  /\ call.out = Runner("librespeed-cli", "librespeed-cli")

(***************************************************************************)
(* C36  (as stated)  For every order of the timer, error and close events  *)
(* a call of the process runner resolves; killed is true exactly when the  *)
(* process was still running when the timeout fired and was force-killed;  *)
(* a process that cannot be launched resolves with spawn_error true and    *)
(* code 127; a process that ends on its own before the timeout resolves    *)
(* with killed false and its exit code.                                    *)
(***************************************************************************)
C36_Original ==
  call.fn = "runCmd" =>
    LET events == call.arg.events
        out == call.out
    IN /\ out.value # Null /\ out.resolves >= 1
       /\ out.value.killed <=> out.forceKilled
       /\ Head(events) \in {"spawn_throw", "error"} =>
            out.value.spawn_error /\ out.value.code = Num(127)
       /\ Head(events) = "exit" =>
            ~out.value.killed /\ out.value.code = Num(call.arg.code)

\* the rate-limit fields of state file f equal those of controller s (a
\* controller without a file has none set)
PersistedBackoff(s, f) ==
  IF f = NoFile THEN s.rateLimitUntil = 0 /\ s.rateLimitCount = 0
  ELSE /\ Get(f, "rate_limit_until", 0) = s.rateLimitUntil
       /\ Get(f, "rate_limit_count", 0) = s.rateLimitCount

(***************************************************************************)
(* C37  The backoff survives a restart.  In every reachable state the      *)
(* rate_limit_until and rate_limit_count of the state file equal the       *)
(* values in memory, and so they do after every event of a run that        *)
(* changes them (a hit or a reset).  A controller created now from the     *)
(* file has the same window and count; inside the window it has started    *)
(* no run, its tick starts none and its runNow starts none and reports a   *)
(* rate-limit error, while a runNow at an instant at or after the end of   *)
(* the window starts a run; a hit recorded by the new controller counts    *)
(* on from the persisted count and sets the window of the next step.       *)
(***************************************************************************)
C37_BackoffSurvives ==
  /\ PersistedBackoff(Ctl, file)
  /\ \A i \in 1..Len(runs) :
       \A z \in Outcomes(i) :
         z.rateLimitUntil # rateLimitUntil \/ z.rateLimitCount # rateLimitCount =>
           z.file # NoFile /\ PersistedBackoff(z, z.file)
  /\ \E z \in {AfterCreate} :
       /\ z.rateLimitUntil = rateLimitUntil /\ z.rateLimitCount = rateLimitCount
       /\ InWindowNow =>
            /\ z.runs = << >> /\ ~z.running
            /\ \E w \in {settle(tick(z, now), host)} : w.runs = << >> /\ ~w.running
            /\ \E w \in {settle(runNow(z, now), host)} :
                 w.runs = << >> /\ ~w.running /\ w.lastError # Null
            /\ \A t \in TimePoints :
                 t >= rateLimitUntil =>
                   \E w \in {settle(runNow(z, t), host)} : Len(w.runs) = 1 /\ w.running
       /\ \E w \in {rateLimitHit(z, now)} :
            /\ w.rateLimitCount = rateLimitCount + 1
            /\ w.rateLimitUntil = now + BackoffOf(rateLimitCount + 1)
            /\ PersistedBackoff(w, w.file)

\* a hit was recorded by a run without a fallback (count 1, window open,
\* nothing but the hit written) and the process can be restarted inside the
\* window
C37_Witness ==
  /\ InWindowNow /\ rateLimitCount = 1 /\ ~running
  /\ file # NoFile /\ "history" \notin DOMAIN file
  /\ file.rate_limit_count = 1 /\ file.rate_limit_until = rateLimitUntil
  /\ intervalMin > 0

(***************************************************************************)
(* C38  (as stated)  When the state file holds the history a completed     *)
(* run wrote (the history in memory), a controller created from the file   *)
(* now reports in history_24h the entries the running controller reports:  *)
(* same order, ts, runner, note and metric values, a null metric still     *)
(* null.                                                                   *)
(***************************************************************************)
C38_Original ==
  file # NoFile /\ "history" \in DOMAIN file /\ file.history = history =>
    \E z \in {AfterCreate} :
      snapshotOf(snapshotPrune(z, now)).history_24h
        = snapshotOf(snapshotPrune(Ctl, now)).history_24h

TickStarts == Tick /\ Len(runs') > Len(runs)

\* runNow starts a run
RunNowStarts == RunNow /\ Len(runs') > Len(runs)

(***************************************************************************)
(* C40  (as stated)  With interval_min > 0, tick called again and again    *)
(* while time advances, no setIntervalMin and every run finishing: again   *)
(* and again a run is started by tick.                                     *)
(***************************************************************************)
C40_Original == []<><<TickStarts>>_vars

(***************************************************************************)
(* C40  (amended)  Under the same assumptions: a run that tick starts is   *)
(* started at a time >= next_run_ts and >= rate_limit_until; and again and *)
(* again a run is started by tick, unless runNow keeps starting runs       *)
(* for ever (a tick that finds a run in progress starts none).             *)
(***************************************************************************)
C40_SchedulerLive ==
  /\ [][TickStarts => nextRunTs # 0 /\ now >= nextRunTs /\ now >= rateLimitUntil]_vars
  /\ ([]<><<TickStarts>>_vars \/ []<><<RunNowStarts>>_vars)

\* after a rate-limit hit and the end of its window tick has started the
\* next run: the run is in progress, the count of the hit still stands, and
\* next_run_ts is the time tick set when it started the run
C40_Witness ==
  /\ intervalMin > 0 /\ running /\ Len(runs) = 1
  /\ rateLimitCount = 1 /\ rateLimitUntil # 0 /\ rateLimitUntil < now
  /\ nextRunTs = now + intervalMin * 60 * 1000

====
